---- MODULE Spec2Model ----
(***************************************************************************)
(* Model of the sharded, replicated key-value store of src/kvstore:        *)
(* ConsensusModule (consensus.py), KVStore (store.py), ShardManager        *)
(* (sharding.py), AuthManager (auth.py) and the RPC facade KVStoreServicer *)
(* (node.py).  A cluster is a set of node processes started as in          *)
(* scripts/start_cluster.py: each node gets the addresses of all the       *)
(* other nodes as its peers.  The hash rings HashRing (hash_ring.py) and   *)
(* ConsistentHashing (coordinator.py) are modelled as objects of their     *)
(* own.                                                                    *)
(***************************************************************************)
EXTENDS Integers, Sequences, FiniteSets, TLC

VARIABLES
    peers,            \* node -> sequence of peer addresses (Node.peers)
    current_term,     \* node -> ConsensusModule.current_term
    voted_for,        \* node -> ConsensusModule.voted_for
    state,            \* node -> ConsensusModule.state
    leader_id,        \* node -> ConsensusModule.leader_id
    last_heartbeat,   \* node -> ConsensusModule.last_heartbeat (ms)
    store,            \* node -> KVStore._store (key -> Value)
    version_counter,  \* node -> KVStore._version_counter
    shard_allocation, \* node -> ShardManager.shard_allocation
    shard_order,      \* node -> the key order of the shard_allocation dictionary
    owned_shards,     \* node -> ShardManager.owned_shards
    api_keys,         \* node -> AuthManager.api_keys
    tokens,           \* node -> AuthManager.tokens (token -> <<expiry, api_key>>)
    now,              \* the wall clock time.time(), in milliseconds
    granted,          \* history: node -> the candidates it voted for in its current term
    reply,            \* the last RPC: its request, what the handler saw, its response
    threads,          \* thread -> the KVStore call it is in, or made last
    lock,             \* KVStore._lock: the thread holding it
    put_log,          \* history: the <<key, value>> pairs put was called with
    ring,             \* HashRing.ring (hash value -> node)
    sorted_keys,      \* HashRing.sorted_keys
    ch_nodes,         \* ConsistentHashing.nodes (node -> address)
    ch_ring,          \* ConsistentHashing.ring (position -> node)
    vhash,            \* the hash of each virtual node key "<node>:<i>"
    failed_attempts,  \* NodeManager: peer -> Node.failed_attempts
    peer_up,          \* peer -> whether it answers the requests sent to it
    calls,            \* caller -> its forward_request call in progress
    workers,          \* RPC worker thread -> the handler it is running
    storage,          \* HTTP node -> Storage._store (key -> value)
    node_failures,    \* HTTP node -> its NodeManager.nodes: node -> failed_attempts
    chain             \* the put_value handlers in progress, each awaiting the next

vars == <<peers, current_term, voted_for, state, leader_id, last_heartbeat,
          store, version_counter, shard_allocation, shard_order, owned_shards,
          api_keys, tokens, now, granted, reply, threads, lock, put_log,
          ring, sorted_keys, ch_nodes, ch_ring, vhash,
          failed_attempts, peer_up, calls, workers,
          storage, node_failures, chain>>

consensusVars == <<current_term, voted_for, state, leader_id, last_heartbeat>>
configVars == <<peers, shard_allocation, shard_order, owned_shards, api_keys>>
dataVars == <<store, version_counter>>
threadVars == <<threads, lock, put_log>>
ringVars == <<ring, sorted_keys, ch_nodes, ch_ring, vhash>>
\* the objects the RPC handlers of a node never touch
healthVars == <<failed_attempts, peer_up, calls>>
workerVars == <<workers>>
httpVars == <<storage, node_failures, chain>>
standaloneVars == <<threadVars, ringVars, healthVars, workerVars, httpVars>>

----------------------------------------------------------------------------
(* Bounds *)

\* the largest term a timer or a request may reach
MaxTerm == 2
\* the largest term the timers reach while clients use the data RPCs
MaxElections == 1
\* the largest value of a store's version counter
MaxVersion == 2
\* the writes that the handlers of SpecWorkers may make
MaxWrites == 3
\* how many election-timeout-sized clock instants are sampled
MaxShortTicks == 2
\* how many token-lifetime-sized clock instants are sampled
MaxLongTicks == 1
\* how many distinct tokens the token generator produces
MaxTokens == 1

\* the cluster sizes explored: a single node and a pair, and the three-node
\* cluster of the demo configuration
DemoNodes == {1, 2, 3}
SmallClusters == {1, 2}
DemoCluster == {Cardinality(DemoNodes)}

\* the virtual nodes per node on a hash ring (replicas, num_virtual_nodes)
MaxVirtual == 2
\* the largest position the hash of a virtual node key takes
MaxPosition == 2
\* the longest list of positions a HashRing grows to
MaxSortedKeys == 6
\* the most put_value handlers that await one another
MaxChain == 3

\* the nodes put on a hash ring
RingNodes == {1, 2}

----------------------------------------------------------------------------
(* Program constants *)

election_timeout_min == 150
election_timeout_max == 300
token_expiry == 3600
num_shards == 10

\* NodeState
FOLLOWER == "follower"
CANDIDATE == "candidate"
LEADER == "leader"

\* Python's None for an identity, for a version and for a value
None == <<"none", 0>>
NoVersion == -1
NoData == "None"

\* a node's id ("node1") and its address ("host:port")
NodeId(i) == <<"id", i>>
Addr(i) == <<"addr", i>>

Nodes == DOMAIN peers

\* the clock instants at which the program is observed
Instants(short, long) ==
    { a * election_timeout_min + b * (token_expiry * 1000) :
        a \in 0..short, b \in 0..long }

\* the timeouts random.randint may draw (its two ends)
TimeoutChoices == {election_timeout_min, election_timeout_max}

SeqToSet(s) == { s[i] : i \in 1..Len(s) }

----------------------------------------------------------------------------
(* scripts/start_cluster.py: the peers of a node are the addresses of all   *)
(* other configured nodes, in configuration order.                          *)

RECURSIVE PeersOf(_, _, _)
PeersOf(n, i, size) ==
    IF i > size THEN <<>>
    ELSE IF i = n THEN PeersOf(n, i + 1, size)
    ELSE <<Addr(i)>> \o PeersOf(n, i + 1, size)

----------------------------------------------------------------------------
(* ConsensusModule *)

\* the vote request to a peer: the code has a placeholder that never grants
request_vote_rpc(peer, term) == FALSE

\* the test that decides an election
WonElectionStrict(votes_received, npeers) == votes_received >= (npeers + 1) \div 2
WonElection(votes_received, npeers) == votes_received > (npeers + 1) \div 2

\* the election timer has run out
TimerExpired(n, timeout) == (now - last_heartbeat[n]) > timeout

\* the grant test of handle_request_vote
GrantAlways(voted, candidate_id) == TRUE
CanGrant(voted, candidate_id) == voted = None \/ voted = candidate_id

\* the stale-term test of both handlers
NeverStale(term, current) == FALSE
IsStale(term, current) == term < current

\* the term a handler leaves behind: a greater term is adopted
TermOfRequest(term, current) == term
TermAfter(term, current) == IF term > current THEN term ELSE current

AlwaysLeader(n) == TRUE
is_leader(n) == state[n] = LEADER

\* the record of an RPC: the request (op .. term), what the node's state was
\* when the handler ran (saw..), and the response and the replication calls
EmptyReply ==
    [op |-> "none", node |-> 0, key |-> "", value |-> "", token |-> 0,
     version |-> 0, candidate |-> None, term |-> 0,
     sawToken |-> "", sawLeader |-> FALSE, sawOwner |-> FALSE,
     sawVersion |-> NoVersion,
     success |-> FALSE, found |-> FALSE, error |-> "", hint |-> None,
     rvalue |-> "", new_version |-> 0, rterm |-> 0, sent |-> {},
     operation |-> "", snapshot |-> <<>>, at |-> 0, expiry |-> NoVersion,
     position |-> 0]

\* _start_election and, when it wins, _become_leader, under the module lock
start_election(n) ==
    LET term1 == current_term[n] + 1
        votes_received ==
            1 + Cardinality({ i \in 1..Len(peers[n]) :
                                request_vote_rpc(peers[n][i], term1) })
        won == WonElection(votes_received, Len(peers[n]))
    IN  /\ current_term' = [current_term EXCEPT ![n] = term1]
        /\ voted_for' = [voted_for EXCEPT ![n] = NodeId(n)]
        /\ state' = [state EXCEPT ![n] = IF won THEN LEADER ELSE FOLLOWER]
        /\ leader_id' = [leader_id EXCEPT ![n] = IF won THEN NodeId(n) ELSE None]
        /\ granted' = [granted EXCEPT ![n] = {NodeId(n)}]
        /\ UNCHANGED last_heartbeat

\* one round of _run_election_timer in which the timeout has passed
ElectionTimer(n, cap) ==
    /\ state[n] # LEADER
    /\ \E timeout \in TimeoutChoices : TimerExpired(n, timeout)
    /\ current_term[n] < cap
    /\ start_election(n)
    /\ UNCHANGED <<configVars, standaloneVars, dataVars, tokens, now, reply>>

\* handle_request_vote, called through the RequestVote RPC
RequestVote(n, candidate_id, term) ==
    LET stale == IsStale(term, current_term[n])
        newer == ~ stale /\ term > current_term[n]
        voted == IF newer THEN None ELSE voted_for[n]
        grant == ~ stale /\ CanGrant(voted, candidate_id)
        term1 == TermAfter(term, current_term[n])
    IN  /\ current_term' = [current_term EXCEPT ![n] = term1]
        /\ state' = [state EXCEPT ![n] = IF newer THEN FOLLOWER ELSE @]
        /\ voted_for' = [voted_for EXCEPT ![n] =
                            IF grant THEN candidate_id ELSE voted]
        /\ granted' = [granted EXCEPT ![n] =
                          (IF newer THEN {} ELSE @)
                          \cup (IF grant THEN {candidate_id} ELSE {})]
        /\ reply' = [EmptyReply EXCEPT !.op = "RequestVote", !.node = n,
                        !.candidate = candidate_id, !.term = term,
                        !.success = grant, !.rterm = term1]
        /\ UNCHANGED <<leader_id, last_heartbeat, configVars, standaloneVars, dataVars,
                       tokens, now>>

\* handle_append_entries, called through the AppendEntries RPC
AppendEntries(n, term, leader) ==
    LET stale == IsStale(term, current_term[n])
        newer == ~ stale /\ term > current_term[n]
        term1 == TermAfter(term, current_term[n])
    IN  /\ current_term' = [current_term EXCEPT ![n] = term1]
        /\ state' = [state EXCEPT ![n] = IF newer THEN FOLLOWER ELSE @]
        /\ voted_for' = [voted_for EXCEPT ![n] = IF newer THEN None ELSE @]
        /\ last_heartbeat' = [last_heartbeat EXCEPT ![n] =
                                IF stale THEN @ ELSE now]
        /\ leader_id' = [leader_id EXCEPT ![n] = IF stale THEN @ ELSE leader]
        /\ reply' = [EmptyReply EXCEPT !.op = "AppendEntries", !.node = n,
                        !.candidate = leader, !.term = term,
                        !.success = ~ stale, !.rterm = term1]
        /\ granted' = [granted EXCEPT ![n] = IF newer THEN {} ELSE @]
        /\ UNCHANGED <<configVars, standaloneVars, dataVars, tokens, now>>

\* time passes
Tick(instants) ==
    /\ \E t \in instants : t > now /\ now' = t
    /\ UNCHANGED <<consensusVars, configVars, standaloneVars, dataVars, tokens, granted, reply>>

----------------------------------------------------------------------------
(* ShardManager *)

\* int(hashlib.md5(key).hexdigest(), 16) % m, on the hex digits of the digest
RECURSIVE HexMod(_, _, _, _)
HexMod(digits, i, acc, m) ==
    IF i > Len(digits) THEN acc
    ELSE HexMod(digits, i + 1, (acc * 16 + digits[i]) % m, m)

\* the MD5 digests of the keys used, as hex digits
Md5Hex(key) ==
    IF key = "key1"
    THEN <<12,2,10,13,13,6,9,4,11,15,9,4,2,13,12,7,
           7,11,3,7,6,5,9,2,13,9,12,8,6,2,12,13>>
    ELSE <<7,8,15,8,2,5,10,10,10,0,1,0,3,3,1,9,
           10,10,10,1,10,3,0,11,15,4,15,14,3,10,13,10>>

Keys == {"key1", "key2"}
Values == {"a", "b"}

\* MD5(key) mod num_shards, tabulated once for the keys used
ShardOfKey == [key \in Keys |-> HexMod(Md5Hex(key), 1, 0, num_shards)]

calculate_shard(key) == ShardOfKey[key]

\* range(num_shards) as a list
AllShards == [i \in 1..num_shards |-> i - 1]

\* assign_initial_shards(nodes): round robin over the given list
InitialAllocation(nodes) ==
    [s \in 0..(num_shards - 1) |-> nodes[(s % Len(nodes)) + 1]]

InitialOwned(self, nodes) ==
    { s \in 0..(num_shards - 1) : InitialAllocation(nodes)[s] = self }

\* the node list KVStoreServicer.__init__ hands to assign_initial_shards
ServicerNodeList(n, ps) == <<NodeId(n)>> \o ps

owns_key(n, key) == calculate_shard(key) \in owned_shards[n]

get_owner(n, key) ==
    IF calculate_shard(key) \in DOMAIN shard_allocation[n]
    THEN shard_allocation[n][calculate_shard(key)]
    ELSE None

----------------------------------------------------------------------------
(* KVStore *)

\* a store is a function from the keys present to [data, version]
store_get_absent(s, key) == <<NoData, FALSE>>
store_get(s, key) ==
    IF key \in DOMAIN s THEN <<s[key].data, TRUE>> ELSE <<NoData, FALSE>>

get_version_or_zero(s, key) ==
    IF key \in DOMAIN s THEN s[key].version ELSE 0
get_version(s, key) ==
    IF key \in DOMAIN s THEN s[key].version ELSE NoVersion

\* put: the counter after the call, and the store after the call
CounterKept(counter) == counter
NextCounter(counter) == counter + 1

store_put_first_wins(s, counter, key, value) ==
    IF key \in DOMAIN s THEN s
    ELSE [k \in DOMAIN s \cup {key} |->
            IF k = key THEN [data |-> value, version |-> NextCounter(counter)]
            ELSE s[k]]
store_put(s, counter, key, value) ==
    [k \in DOMAIN s \cup {key} |->
        IF k = key THEN [data |-> value, version |-> NextCounter(counter)]
        ELSE s[k]]

store_delete_nothing(s, key) == s
store_delete(s, key) == [k \in DOMAIN s \ {key} |-> s[k]]

\* get_all: a copy of the key -> data mapping
store_get_all(s) == [k \in DOMAIN s |-> s[k].data]

\* Python truth of an int-or-None
Truthy(x) == x # NoVersion /\ x # 0

----------------------------------------------------------------------------
(* AuthManager *)

EmptyToken == 0
TokenIds == 1..MaxTokens
ApiKeyInputs == {"demo-key", "bad-key"}

\* the expiry test of validate_token, on the clock reading t
Expired(t, expiry) == t > expiry

\* validate_token: "ok", or the error it returns
AcceptPresent(tbl, token) ==
    IF token \notin DOMAIN tbl THEN "Invalid token" ELSE "ok"
validate_token(tbl, token) ==
    IF token \notin DOMAIN tbl THEN "Invalid token"
    ELSE IF Expired(now, tbl[token][1]) THEN "Token expired"
    ELSE "ok"

\* the token table validate_token leaves behind: an expired token is evicted
tokens_after_validate(tbl, token) ==
    IF token \in DOMAIN tbl /\ Expired(now, tbl[token][1])
    THEN [t \in DOMAIN tbl \ {token} |-> tbl[t]]
    ELSE tbl

\* what a token is at the receiving node, read off the token table
TokenState(n, token) ==
    IF token \notin DOMAIN tokens[n] THEN "absent"
    ELSE IF Expired(now, tokens[n][token][1]) THEN "expired"
    ELSE "live"

\* Authenticate RPC -> AuthManager.authenticate; the generated token is fresh
Authenticate(n, api_key) ==
    /\ IF api_key \notin DOMAIN api_keys[n]
       THEN /\ reply' = [EmptyReply EXCEPT !.op = "Authenticate", !.node = n,
                            !.error = "Invalid API key"]
            /\ UNCHANGED tokens
       ELSE \E token \in TokenIds :
            /\ \A m \in Nodes : token \notin DOMAIN tokens[m]
            /\ tokens' = [tokens EXCEPT ![n] =
                  [t \in DOMAIN @ \cup {token} |->
                      IF t = token THEN <<now + token_expiry * 1000, api_key>>
                      ELSE @[t]]]
            /\ reply' = [EmptyReply EXCEPT !.op = "Authenticate", !.node = n,
                            !.success = TRUE, !.token = token]
    /\ UNCHANGED <<consensusVars, configVars, standaloneVars, dataVars, now, granted>>

\* AuthManager.validate_token called directly; the call is recorded with the
\* clock reading and the expiry it compared
ValidateToken(n, token) ==
    /\ tokens' = [tokens EXCEPT ![n] = tokens_after_validate(@, token)]
    /\ reply' = [EmptyReply EXCEPT !.op = "validate_token", !.node = n,
                    !.token = token, !.sawToken = TokenState(n, token),
                    !.at = now,
                    !.expiry = IF token \in DOMAIN tokens[n]
                               THEN tokens[n][token][1] ELSE NoVersion,
                    !.success = (validate_token(tokens[n], token) = "ok"),
                    !.error = IF validate_token(tokens[n], token) = "ok"
                              THEN "" ELSE validate_token(tokens[n], token)]
    /\ UNCHANGED <<consensusVars, configVars, standaloneVars, dataVars, now, granted>>

----------------------------------------------------------------------------
(* KVStoreServicer *)

NodeOfAddr(a) == a[2]

\* the version test of Put
ConflictOnAnyMismatch(current_version, version) == current_version # version
VersionConflict(current_version, version) ==
    Truthy(current_version) /\ Truthy(version) /\ current_version # version

\* Replicate RPC as applied by the peers that the calls of
\* _replicate_to_peers reach
ReplicatedStore(up, key, value, operation) ==
    [m \in Nodes |->
        IF Addr(m) \in up
        THEN IF operation = "PUT"
             THEN store_put(store[m], version_counter[m], key, value)
             ELSE store_delete(store[m], key)
        ELSE store[m]]

ReplicatedCounter(up, operation) ==
    [m \in Nodes |->
        IF Addr(m) \in up /\ operation = "PUT"
        THEN NextCounter(version_counter[m])
        ELSE version_counter[m]]

\* the request as recorded with what the node's state was when it arrived
Request(op, n, key, value, token, version) ==
    [EmptyReply EXCEPT !.op = op, !.node = n, !.key = key, !.value = value,
        !.token = token, !.version = version,
        !.sawToken = TokenState(n, token),
        !.sawLeader = (state[n] = LEADER),
        !.sawOwner = (shard_allocation[n][calculate_shard(key)] = NodeId(n)),
        !.sawVersion = IF key \in DOMAIN store[n] THEN store[n][key].version
                       ELSE NoVersion]

Get(n, key, token) ==
    LET req == Request("Get", n, key, "", token, 0)
        auth == validate_token(tokens[n], token)
        got == store_get(store[n], key)
    IN  /\ tokens' = [tokens EXCEPT ![n] = tokens_after_validate(@, token)]
        /\ reply' =
             IF auth # "ok" THEN [req EXCEPT !.error = auth]
             ELSE IF ~ owns_key(n, key)
             THEN [req EXCEPT !.error = "Key belongs to node",
                              !.hint = get_owner(n, key)]
             ELSE [req EXCEPT !.rvalue = IF got[1] \in {NoData, ""} THEN ""
                                         ELSE got[1],
                              !.found = got[2],
                      !.new_version = IF got[2] THEN get_version(store[n], key)
                                      ELSE 0]
        /\ UNCHANGED <<consensusVars, configVars, standaloneVars, dataVars, now, granted>>

\* the first check of Put and Delete that fails: "ok" when none does
WriteGate(n, key, token) ==
    LET auth == validate_token(tokens[n], token)
    IN  IF auth # "ok" THEN auth
        ELSE IF ~ is_leader(n) THEN "Not leader"
        ELSE IF ~ owns_key(n, key) THEN "Key belongs to node"
        ELSE "ok"

GateHint(n, key, gate) ==
    IF gate = "Not leader" THEN leader_id[n]
    ELSE IF gate = "Key belongs to node" THEN get_owner(n, key)
    ELSE None

Put(n, key, value, token, version) ==
    LET req == Request("Put", n, key, value, token, version)
        gate == WriteGate(n, key, token)
        current_version == get_version(store[n], key)
        conflict == gate = "ok" /\ VersionConflict(current_version, version)
        accepted == gate = "ok" /\ ~ conflict
    IN  /\ tokens' = [tokens EXCEPT ![n] = tokens_after_validate(@, token)]
        /\ IF accepted
           THEN /\ version_counter[n] < MaxVersion
                /\ \E up \in SUBSET SeqToSet(peers[n]) :
                    /\ \A a \in up : version_counter[NodeOfAddr(a)] < MaxVersion
                    /\ store' = [ReplicatedStore(up, key, value, "PUT")
                                   EXCEPT ![n] = store_put(store[n],
                                                     version_counter[n], key, value)]
                    /\ version_counter' = [ReplicatedCounter(up, "PUT")
                                   EXCEPT ![n] = NextCounter(version_counter[n])]
                /\ reply' = [req EXCEPT !.success = TRUE,
                                !.new_version = NextCounter(version_counter[n]),
                                !.sent = SeqToSet(peers[n])]
           ELSE /\ UNCHANGED dataVars
                /\ reply' =
                     IF conflict
                     THEN [req EXCEPT !.error = "Version conflict",
                                      !.new_version = current_version]
                     ELSE [req EXCEPT !.error = gate,
                                      !.hint = GateHint(n, key, gate)]
        /\ UNCHANGED <<consensusVars, configVars, standaloneVars, now, granted>>

Delete(n, key, token) ==
    LET req == Request("Delete", n, key, "", token, 0)
        gate == WriteGate(n, key, token)
    IN  /\ tokens' = [tokens EXCEPT ![n] = tokens_after_validate(@, token)]
        /\ IF gate = "ok"
           THEN /\ \E up \in SUBSET SeqToSet(peers[n]) :
                    store' = [ReplicatedStore(up, key, "", "DELETE")
                                EXCEPT ![n] = store_delete(store[n], key)]
                /\ reply' = [req EXCEPT !.success = (key \in DOMAIN store[n]),
                                !.sent = SeqToSet(peers[n])]
                /\ UNCHANGED version_counter
           ELSE /\ UNCHANGED dataVars
                /\ reply' = [req EXCEPT !.error = gate,
                                        !.hint = GateHint(n, key, gate)]
        /\ UNCHANGED <<consensusVars, configVars, standaloneVars, now, granted>>

\* Replicate RPC, called directly: no token, no role or ownership check
Replicate(n, operation, key, value) ==
    LET req == [Request("Replicate", n, key, value, EmptyToken, 0)
                   EXCEPT !.operation = operation]
    IN  /\ IF operation = "PUT"
           THEN /\ version_counter[n] < MaxVersion
                /\ store' = [store EXCEPT ![n] =
                                store_put(@, version_counter[n], key, value)]
                /\ version_counter' = [version_counter EXCEPT ![n] =
                                          NextCounter(@)]
                /\ reply' = [req EXCEPT !.success = TRUE]
           ELSE /\ store' = [store EXCEPT ![n] = store_delete(@, key)]
                /\ reply' = [req EXCEPT !.success = (key \in DOMAIN store[n])]
                /\ UNCHANGED version_counter
        /\ UNCHANGED <<consensusVars, configVars, standaloneVars, tokens, now, granted>>

----------------------------------------------------------------------------
(* KVStore methods called directly, as the unit tests do *)

\* the call as recorded with the version the key had when it was made
StoreRequest(op, n, key, value) ==
    [EmptyReply EXCEPT !.op = op, !.node = n, !.key = key, !.value = value,
        !.sawVersion = IF key \in DOMAIN store[n] THEN store[n][key].version
                       ELSE NoVersion]

CallPut(n, key, value) ==
    /\ version_counter[n] < MaxVersion
    /\ store' = [store EXCEPT ![n] = store_put(@, version_counter[n], key, value)]
    /\ version_counter' = [version_counter EXCEPT ![n] = NextCounter(@)]
    /\ reply' = [StoreRequest("put", n, key, value) EXCEPT !.success = TRUE]
    /\ UNCHANGED <<consensusVars, configVars, standaloneVars, tokens, now, granted>>

CallGet(n, key) ==
    /\ reply' = [StoreRequest("get", n, key, "") EXCEPT
                    !.rvalue = store_get(store[n], key)[1],
                    !.found = store_get(store[n], key)[2]]
    /\ UNCHANGED <<consensusVars, configVars, standaloneVars, dataVars, tokens, now, granted>>

CallDelete(n, key) ==
    /\ store' = [store EXCEPT ![n] = store_delete(@, key)]
    /\ reply' = [StoreRequest("delete", n, key, "") EXCEPT
                    !.success = (key \in DOMAIN store[n])]
    /\ UNCHANGED <<consensusVars, configVars, standaloneVars, version_counter, tokens, now,
                   granted>>

CallGetVersion(n, key) ==
    /\ reply' = [StoreRequest("get_version", n, key, "") EXCEPT
                    !.new_version = get_version(store[n], key)]
    /\ UNCHANGED <<consensusVars, configVars, standaloneVars, dataVars, tokens, now, granted>>

CallGetAll(n) ==
    /\ reply' = [EmptyReply EXCEPT !.op = "get_all", !.node = n,
                    !.snapshot = store_get_all(store[n])]
    /\ UNCHANGED <<consensusVars, configVars, standaloneVars, dataVars, tokens, now, granted>>

----------------------------------------------------------------------------
(* HashRing (hash_ring.py) and ConsistentHashing (coordinator.py).  A ring  *)
(* is a dictionary from positions to nodes; the position of the virtual     *)
(* node i of a node is the MD5 hash of "<node>:<i>", here the table vhash.  *)

replicas == MaxVirtual
num_virtual_nodes == MaxVirtual

Positions == 0..MaxPosition
VirtualKeys == RingNodes \X (0..(MaxVirtual - 1))

\* HashRing.get_hash and ConsistentHashing._hash of the key "<node_id>:<i>"
get_hash(node_id, i) == vhash[<<node_id, i>>]
ch_hash(node_id, i) == vhash[<<node_id, i>>]

RingsEmpty ==
    /\ ring = <<>> /\ sorted_keys = <<>>
    /\ ch_nodes = <<>> /\ ch_ring = <<>>

\* d[k] = v and del d[k] on a dictionary
DictSet(d, k, v) == [j \in DOMAIN d \cup {k} |-> IF j = k THEN v ELSE d[j]]
DictDel(d, k) == [j \in DOMAIN d \ {k} |-> d[j]]

\* list.sort, by insertion
RECURSIVE SortedList(_)
SortedList(l) ==
    IF l = <<>> THEN <<>>
    ELSE LET rest == SortedList(Tail(l))
             below == SelectSeq(rest, LAMBDA x : x < Head(l))
             above == SelectSeq(rest, LAMBDA x : x >= Head(l))
         IN  below \o <<Head(l)>> \o above

\* list.remove: the first occurrence goes
RECURSIVE ListRemove(_, _)
ListRemove(l, x) ==
    IF l = <<>> THEN <<>>
    ELSE IF Head(l) = x THEN Tail(l)
    ELSE <<Head(l)>> \o ListRemove(Tail(l), x)

\* the loop of HashRing.add_node from virtual node i on: <<ring, sorted_keys>>
RECURSIVE hr_add_from(_, _, _, _)
hr_add_from(r, sk, node_id, i) ==
    IF i = replicas THEN <<r, sk>>
    ELSE hr_add_from(DictSet(r, get_hash(node_id, i), node_id),
                     Append(sk, get_hash(node_id, i)), node_id, i + 1)

\* the loop of HashRing.remove_node from virtual node i on, left at the first
\* exception: <<ring, sorted_keys, exception>>
RECURSIVE hr_remove_from(_, _, _, _)
hr_remove_from(r, sk, node_id, i) ==
    IF i = replicas THEN <<r, sk, "">>
    ELSE IF get_hash(node_id, i) \notin DOMAIN r THEN <<r, sk, "KeyError">>
    ELSE IF get_hash(node_id, i) \notin SeqToSet(sk)
    THEN <<DictDel(r, get_hash(node_id, i)), sk, "ValueError">>
    ELSE hr_remove_from(DictDel(r, get_hash(node_id, i)),
                        ListRemove(sk, get_hash(node_id, i)), node_id, i + 1)

HashRingOps ==
    {"HashRing.add_node", "HashRing.remove_node", "HashRing.get_node",
     "HashRing.get_nodes"}
CoordinatorOps ==
    {"ConsistentHashing.add_node", "ConsistentHashing.remove_node",
     "ConsistentHashing.get_node"}

\* the entries of a ring that map to a node
EntriesOf(r, node_id) == { p \in DOMAIN r : r[p] = node_id }

RingRequest(op, node_id) == [EmptyReply EXCEPT !.op = op, !.node = node_id]

HashRing_add_node(node_id) ==
    LET added == hr_add_from(ring, sorted_keys, node_id, 0)
    IN  /\ reply.op \in HashRingOps \cup {EmptyReply.op}
        /\ Len(sorted_keys) + replicas <= MaxSortedKeys
        /\ ring' = added[1]
        /\ sorted_keys' = SortedList(added[2])
        /\ reply' = [RingRequest("HashRing.add_node", node_id) EXCEPT
                        !.found = (EntriesOf(ring, node_id) # {}),
                        !.snapshot = <<ring, sorted_keys>>]
        /\ UNCHANGED <<consensusVars, configVars, dataVars, tokens, now,
                       granted, threadVars, healthVars, workerVars, httpVars, ch_nodes, ch_ring, vhash>>

HashRing_remove_node(node_id) ==
    LET removed == hr_remove_from(ring, sorted_keys, node_id, 0)
    IN  /\ reply.op \in HashRingOps \cup {EmptyReply.op}
        /\ ring' = removed[1]
        /\ sorted_keys' = removed[2]
        /\ reply' = [RingRequest("HashRing.remove_node", node_id)
                        EXCEPT !.error = removed[3]]
        /\ UNCHANGED <<consensusVars, configVars, dataVars, tokens, now,
                       granted, threadVars, healthVars, workerVars, httpVars, ch_nodes, ch_ring, vhash>>

\* the positions of the virtual nodes of a node
PositionsOf(node_id) == { ch_hash(node_id, i) : i \in 0..(num_virtual_nodes - 1) }

ConsistentHashing_add_node(node_id, address) ==
    /\ reply.op \in CoordinatorOps \cup {EmptyReply.op}
    /\ ch_nodes' = DictSet(ch_nodes, node_id, address)
    /\ ch_ring' = [p \in DOMAIN ch_ring \cup PositionsOf(node_id) |->
                      IF p \in PositionsOf(node_id) THEN node_id
                      ELSE ch_ring[p]]
    /\ reply' = [RingRequest("ConsistentHashing.add_node", node_id) EXCEPT
                    !.found = (node_id \in DOMAIN ch_nodes),
                    !.snapshot = <<ch_nodes, ch_ring>>]
    /\ UNCHANGED <<consensusVars, configVars, dataVars, tokens, now,
                   granted, threadVars, healthVars, workerVars, httpVars, ring, sorted_keys, vhash>>

ConsistentHashing_remove_node(node_id) ==
    /\ reply.op \in CoordinatorOps \cup {EmptyReply.op}
    /\ IF node_id \in DOMAIN ch_nodes
       THEN /\ ch_nodes' = DictDel(ch_nodes, node_id)
            /\ ch_ring' = [p \in { q \in DOMAIN ch_ring :
                                     ch_ring[q] # node_id } |-> ch_ring[p]]
            /\ reply' = [RingRequest("ConsistentHashing.remove_node", node_id)
                            EXCEPT !.hint = ch_nodes[node_id]]
       ELSE /\ UNCHANGED <<ch_nodes, ch_ring>>
            /\ reply' = RingRequest("ConsistentHashing.remove_node", node_id)
    /\ UNCHANGED <<consensusVars, configVars, dataVars, tokens, now,
                   granted, threadVars, healthVars, workerVars, httpVars, ring, sorted_keys, vhash>>

\* bisect(a, x) on a sorted list: the number of elements that are <= x
Bisect(a, x) == Cardinality({ i \in 1..Len(a) : a[i] <= x })

\* list index idx of Python (from 0) in a sequence
At(a, idx) == a[idx + 1]

\* the index at which get_node and get_nodes of HashRing start
hr_start(sk, hash_key) ==
    IF Bisect(sk, hash_key) = Len(sk) THEN 0 ELSE Bisect(sk, hash_key)

\* HashRing.get_node on the hash of the key: <<node, exception>>
hr_get_node(r, sk, hash_key) ==
    IF DOMAIN r = {} THEN <<None, "ValueError">>
    ELSE IF sk = <<>> THEN <<None, "IndexError">>
    ELSE IF At(sk, hr_start(sk, hash_key)) \notin DOMAIN r
    THEN <<None, "KeyError">>
    ELSE <<NodeId(r[At(sk, hr_start(sk, hash_key))]), "">>

\* the while loop of HashRing.get_nodes: <<nodes, exception>>; a loop that
\* has gone round the list without a new node never ends ("loops")
RECURSIVE hr_collect(_, _, _, _, _, _)
hr_collect(r, sk, idx, nodes, count, fuel) ==
    IF Len(nodes) >= count THEN <<nodes, "">>
    ELSE IF fuel = 0 THEN <<nodes, "loops">>
    ELSE IF sk = <<>> THEN <<nodes, "IndexError">>
    ELSE IF At(sk, idx) \notin DOMAIN r THEN <<nodes, "KeyError">>
    ELSE hr_collect(r, sk, (idx + 1) % Len(sk),
                    IF r[At(sk, idx)] \in SeqToSet(nodes) THEN nodes
                    ELSE Append(nodes, r[At(sk, idx)]),
                    count, fuel - 1)

hr_get_nodes(r, sk, hash_key, count) ==
    IF count > Cardinality(DOMAIN r) \div replicas
    THEN <<<<>>, "ValueError">>
    ELSE hr_collect(r, sk, hr_start(sk, hash_key), <<>>, count,
                    (count + 1) * Len(sk))

\* the smallest element of a non-empty set of positions
Least(S) == CHOOSE p \in S : \A q \in S : p <= q

\* ConsistentHashing.get_node on the position of the key: the address, or None
ch_get_node(nodes, r, position) ==
    IF DOMAIN r = {} THEN None
    ELSE IF \E p \in DOMAIN r : p >= position
    THEN nodes[r[Least({ p \in DOMAIN r : p >= position })]]
    ELSE nodes[r[Least(DOMAIN r)]]

\* the lookups; the key is any string, its hash any position
HashRing_get_node(hash_key) ==
    /\ reply.op \in HashRingOps \cup {EmptyReply.op}
    /\ reply' = [EmptyReply EXCEPT !.op = "HashRing.get_node",
                    !.position = hash_key,
                    !.hint = hr_get_node(ring, sorted_keys, hash_key)[1],
                    !.error = hr_get_node(ring, sorted_keys, hash_key)[2]]
    /\ UNCHANGED <<consensusVars, configVars, dataVars, tokens, now,
                   granted, threadVars, ringVars, healthVars,
                   workerVars, httpVars>>

HashRing_get_nodes(hash_key, count) ==
    /\ reply.op \in HashRingOps \cup {EmptyReply.op}
    /\ reply' = [EmptyReply EXCEPT !.op = "HashRing.get_nodes",
                    !.position = hash_key, !.version = count,
                    !.snapshot = hr_get_nodes(ring, sorted_keys, hash_key, count)[1],
                    !.error = hr_get_nodes(ring, sorted_keys, hash_key, count)[2]]
    /\ UNCHANGED <<consensusVars, configVars, dataVars, tokens, now,
                   granted, threadVars, ringVars, healthVars,
                   workerVars, httpVars>>

ConsistentHashing_get_node(position) ==
    /\ reply.op \in CoordinatorOps \cup {EmptyReply.op}
    /\ reply' = [EmptyReply EXCEPT !.op = "ConsistentHashing.get_node",
                    !.position = position,
                    !.hint = ch_get_node(ch_nodes, ch_ring, position)]
    /\ UNCHANGED <<consensusVars, configVars, dataVars, tokens, now,
                   granted, threadVars, ringVars, healthVars,
                   workerVars, httpVars>>

----------------------------------------------------------------------------
(* ShardManager methods called on the shard manager of a node.  The         *)
(* dictionary shard_allocation is the function shard_allocation[n] together *)
(* with the order of its keys, shard_order[n].                              *)

ShardRequest(op, n) == [EmptyReply EXCEPT !.op = op, !.node = n]

\* a call that never returns leaves nothing to run after it
Returned == reply.error # "never returns"

assign_initial_shards(n, nodes) ==
    /\ Returned
    /\ shard_allocation' = [shard_allocation EXCEPT ![n] = InitialAllocation(nodes)]
    /\ shard_order' = [shard_order EXCEPT ![n] =
          @ \o SelectSeq(AllShards, LAMBDA s : s \notin SeqToSet(shard_order[n]))]
    /\ owned_shards' = [owned_shards EXCEPT ![n] =
          @ \cup InitialOwned(NodeId(n), nodes)]
    /\ reply' = [ShardRequest("assign_initial_shards", n) EXCEPT !.snapshot = nodes]
    /\ UNCHANGED <<consensusVars, peers, api_keys, dataVars, tokens, now,
                   granted, standaloneVars>>

add_shard(n, shard_id) ==
    /\ Returned
    /\ owned_shards' = [owned_shards EXCEPT ![n] = @ \cup {shard_id}]
    /\ shard_allocation' = [shard_allocation EXCEPT ![n] =
          DictSet(@, shard_id, NodeId(n))]
    /\ shard_order' = [shard_order EXCEPT ![n] =
          IF shard_id \in SeqToSet(@) THEN @ ELSE Append(@, shard_id)]
    /\ reply' = [ShardRequest("add_shard", n) EXCEPT !.position = shard_id]
    /\ UNCHANGED <<consensusVars, peers, api_keys, dataVars, tokens, now,
                   granted, standaloneVars>>

remove_shard(n, shard_id) ==
    LET mine == /\ shard_id \in DOMAIN shard_allocation[n]
                /\ shard_allocation[n][shard_id] = NodeId(n)
    IN  /\ Returned
        /\ owned_shards' = [owned_shards EXCEPT ![n] = @ \ {shard_id}]
        /\ shard_allocation' = [shard_allocation EXCEPT ![n] =
              IF mine THEN DictDel(@, shard_id) ELSE @]
        /\ shard_order' = [shard_order EXCEPT ![n] =
              IF mine THEN SelectSeq(@, LAMBDA s : s # shard_id) ELSE @]
        /\ reply' = [ShardRequest("remove_shard", n) EXCEPT !.position = shard_id]
        /\ UNCHANGED <<consensusVars, peers, api_keys, dataVars, tokens, now,
                       granted, standaloneVars>>

\* the loops of rebalance_shards from the source node at index i of the
\* list on; ns is node_shards, one list of shards per node of the list:
\* <<shard_allocation, owned_shards, outcome>>.  With a source above the
\* target and no node below it the while loop never ends.
RECURSIVE rebalance_from(_, _, _, _, _, _)
rebalance_from(ns, alloc, owned, nodes, self, i) ==
    LET target_shards_per_node == num_shards \div Len(nodes)
        under == { j \in 1..Len(nodes) : Len(ns[j]) < target_shards_per_node }
        j == CHOOSE k \in under : \A m \in under : k <= m
        shard_to_move == ns[i][Len(ns[i])]
    IN  IF i > Len(nodes) THEN <<alloc, owned, "">>
        ELSE IF Len(ns[i]) <= target_shards_per_node
        THEN rebalance_from(ns, alloc, owned, nodes, self, i + 1)
        ELSE IF under = {} THEN <<alloc, owned, "never returns">>
        ELSE rebalance_from(
                [ns EXCEPT ![i] = SubSeq(@, 1, Len(@) - 1),
                           ![j] = Append(@, shard_to_move)],
                [alloc EXCEPT ![shard_to_move] = nodes[j]],
                (IF nodes[i] = self THEN owned \ {shard_to_move} ELSE owned)
                   \cup (IF nodes[j] = self THEN {shard_to_move} ELSE {}),
                nodes, self, i)

\* rebalance_shards(nodes): node_shards[node] fails for an owner that is not
\* in the list
rebalance_shards(alloc, order, owned, nodes, self) ==
    IF \E s \in DOMAIN alloc : alloc[s] \notin SeqToSet(nodes)
    THEN <<alloc, owned, "KeyError">>
    ELSE rebalance_from(
            [i \in 1..Len(nodes) |->
                SelectSeq(order, LAMBDA s : alloc[s] = nodes[i])],
            alloc, owned, nodes, self, 1)

RebalanceShards(n, nodes) ==
    LET done == rebalance_shards(shard_allocation[n], shard_order[n],
                                 owned_shards[n], nodes, NodeId(n))
    IN  /\ Returned
        /\ shard_allocation' = [shard_allocation EXCEPT ![n] = done[1]]
        /\ owned_shards' = [owned_shards EXCEPT ![n] = done[2]]
        /\ reply' = [ShardRequest("rebalance_shards", n) EXCEPT
                        !.snapshot = nodes, !.error = done[3]]
        /\ UNCHANGED <<consensusVars, peers, api_keys, shard_order, dataVars,
                       tokens, now, granted, standaloneVars>>

----------------------------------------------------------------------------
(* NodeManager of distributed_kv_store: the failure counter of each peer    *)
(* and forward_request, one step per await.  Several calls run as tasks of  *)
(* one event loop, so a call is interleaved with others where it awaits.    *)

max_failures == 3
max_retries == 2

\* the peers of the configuration file and the tasks that forward requests
ManagedNodes == {1, 2}
Callers == {"c1", "c2"}
\* the paths of the data requests that are forwarded
Paths == {"/kv"}

\* Node.is_healthy, Node.mark_failed, Node.mark_healthy
is_healthy(failures) == failures < max_failures
mark_failed(failures) == failures + 1
mark_healthy(failures) == 0

\* what a peer answers: no answer or a 5xx status when it is down, 200 or
\* (for a key it does not hold) 404 when it is up
Responses(p, path) ==
    IF ~ peer_up[p] THEN {"error"}
    ELSE IF path = "/status" THEN {"ok"} ELSE {"ok", "404"}

IdleCall == [pc |-> "idle", node |-> 0, path |-> "", attempt |-> 0, ret |-> ""]

\* the call returns
Returns(value) == [IdleCall EXCEPT !.ret = value]

HealthIdle ==
    /\ failed_attempts = [p \in ManagedNodes |-> 0]
    /\ peer_up = [p \in ManagedNodes |-> TRUE]
    /\ calls = [c \in Callers |-> IdleCall]

\* forward_request(node, method, path) is called
forward_request(c, p, path) ==
    /\ calls[c].pc = "idle"
    /\ calls' = [calls EXCEPT ![c] = [pc |-> "attempt", node |-> p,
                    path |-> path, attempt |-> 0, ret |-> ""]]
    /\ UNCHANGED <<failed_attempts, peer_up>>

\* check_node_health(node) forwards a GET of /status; its answer is whether
\* that call returns something
check_node_health(c, p) == forward_request(c, p, "/status")

\* top of the loop: an unhealthy node gets no request and the call returns
\* None; to a healthy node the request is sent
SendRequest(c) ==
    /\ calls[c].pc = "attempt"
    /\ calls' = [calls EXCEPT ![c] =
          IF is_healthy(failed_attempts[calls[c].node])
          THEN [@ EXCEPT !.pc = "sent"]
          ELSE Returns("None")]
    /\ UNCHANGED <<failed_attempts, peer_up>>

\* the response, or the failure, of the request that was sent
Response(c) ==
    /\ calls[c].pc = "sent"
    /\ \E r \in Responses(calls[c].node, calls[c].path) :
          LET p == calls[c].node IN
          CASE r = "404" ->
                  /\ calls' = [calls EXCEPT ![c] = Returns("None")]
                  /\ UNCHANGED failed_attempts
            [] r = "ok" ->
                  /\ failed_attempts' = [failed_attempts EXCEPT
                                            ![p] = mark_healthy(@)]
                  /\ calls' = [calls EXCEPT ![c] = Returns("json")]
            [] r = "error" ->
                  /\ failed_attempts' = [failed_attempts EXCEPT
                                            ![p] = mark_failed(@)]
                  /\ calls' = [calls EXCEPT ![c] =
                        IF calls[c].attempt < max_retries
                        THEN [@ EXCEPT !.pc = "attempt", !.attempt = @ + 1]
                        ELSE Returns("None")]
    /\ UNCHANGED peer_up

\* the peer goes down or comes back
PeerFails(p) ==
    /\ peer_up[p]
    /\ peer_up' = [peer_up EXCEPT ![p] = FALSE]
    /\ UNCHANGED <<failed_attempts, calls>>

PeerRecovers(p) ==
    /\ ~ peer_up[p]
    /\ peer_up' = [peer_up EXCEPT ![p] = TRUE]
    /\ UNCHANGED <<failed_attempts, calls>>

NotHealth == <<consensusVars, configVars, dataVars, tokens, now, granted,
               reply, threadVars, ringVars, workerVars, httpVars>>

\* the steps of the node manager
ManagerStep ==
    /\ \/ \E c \in Callers, p \in ManagedNodes, path \in Paths :
             forward_request(c, p, path)
       \/ \E c \in Callers, p \in ManagedNodes : check_node_health(c, p)
       \/ \E c \in Callers : SendRequest(c)
       \/ \E c \in Callers : Response(c)
    /\ UNCHANGED NotHealth

PeerStep ==
    /\ \E p \in ManagedNodes : PeerFails(p) \/ PeerRecovers(p)
    /\ UNCHANGED NotHealth

----------------------------------------------------------------------------
(* The HTTP variant: main.py on every node of config.json, each with its    *)
(* own Storage and its own NodeManager (distributed_kv_store).  A put_value *)
(* handler awaits the requests it forwards, and the node that receives one  *)
(* runs put_value for it: the handlers in progress form a chain, each       *)
(* awaiting the next.  A request that is awaited longer than the client     *)
(* timeout of forward_request fails with asyncio.TimeoutError; the handlers *)
(* that served it are then no longer followed.                              *)

\* the nodes of the configuration file, in its order
HttpNodes == {1, 2}
HttpNodeList == <<1, 2>>
\* config["replication_factor"]
replication_factor == 2

NotHttp == <<consensusVars, configVars, dataVars, tokens, now, granted,
             threadVars, ringVars, healthVars, workerVars>>

HttpIdle ==
    /\ storage = [n \in HttpNodes |-> <<>>]
    /\ node_failures = [n \in HttpNodes |-> [p \in HttpNodes |-> 0]]
    /\ chain = <<>>

\* NodeManager.get_node_for_key on the nodes of one manager; 0 stands for
\* the exception "No healthy nodes available"
get_node_for_key(failures, key) ==
    LET healthy_nodes == SelectSeq(HttpNodeList,
                                   LAMBDA p : is_healthy(failures[p]))
    IN  IF healthy_nodes = <<>> THEN 0
        ELSE healthy_nodes[HexMod(Md5Hex(key), 1, 0, Len(healthy_nodes)) + 1]

\* NodeManager.get_replica_nodes
get_replica_nodes(failures, primary_node) ==
    LET healthy_nodes == SelectSeq(HttpNodeList,
                LAMBDA p : is_healthy(failures[p]) /\ p # primary_node)
        count == IF replication_factor - 1 < Len(healthy_nodes)
                 THEN replication_factor - 1 ELSE Len(healthy_nodes)
    IN  SubSeq(healthy_nodes, 1, count)

\* Storage.put
storage_put(s, key, value) ==
    [k \in DOMAIN s \cup {key} |-> IF k = key THEN value ELSE s[k]]

\* a put_value handler that starts at node n; kind tells what sent the
\* request: a client, the forwarding of a handler, or its replication loop
Handler(n, kind, key, value) ==
    [node |-> n, kind |-> kind, pc |-> "route", key |-> key, value |-> value,
     target |-> 0, todo |-> <<>>, attempt |-> 0]

Top == chain[Len(chain)]

\* a client sends PUT /store/{key} to node n
ClientPut(n, key, value) ==
    /\ chain = <<>>
    /\ chain' = <<Handler(n, "client", key, value)>>
    /\ UNCHANGED <<storage, node_failures, reply, NotHttp>>

\* forward_request of handler c goes on after its request was answered
\* (ok) or has failed: the next attempt, the return of None, or the response
Resumed(c, ok, failures) ==
    IF ok
    THEN IF c.pc = "forward"
         THEN [c EXCEPT !.pc = "replicate", !.attempt = 0,
                        !.todo = get_replica_nodes(failures, c.target)]
         ELSE [c EXCEPT !.todo = Tail(@), !.attempt = 0]
    ELSE IF c.attempt < max_retries THEN [c EXCEPT !.attempt = @ + 1]
    ELSE IF c.pc = "forward" THEN [c EXCEPT !.pc = "raise"]
    ELSE [c EXCEPT !.todo = Tail(@), !.attempt = 0]

\* the handler on top returns its response: to the client, or to the
\* forward_request of the handler that awaits it, which marks the node
\* healthy on a 200 and failed on a 5xx status
Finish(status) ==
    IF Len(chain) = 1
    THEN /\ chain' = <<>>
         /\ reply' = [EmptyReply EXCEPT !.op = "put_value", !.node = Top.node,
                         !.key = Top.key, !.value = Top.value,
                         !.success = (status = "200"),
                         !.error = IF status = "200" THEN "" ELSE status]
         /\ UNCHANGED <<storage, node_failures>>
    ELSE LET c == chain[Len(chain) - 1]
             failures == [node_failures[c.node] EXCEPT ![Top.node] =
                            IF status = "200" THEN mark_healthy(@)
                            ELSE mark_failed(@)]
         IN  /\ node_failures' = [node_failures EXCEPT ![c.node] = failures]
             /\ chain' = Append(SubSeq(chain, 1, Len(chain) - 2),
                                Resumed(c, status = "200", failures))
             /\ UNCHANGED <<storage, reply>>

\* put_value: target_node = get_node_for_key(key); on the target node
\* storage.put(key, value) and the replicas to write to
HandleRoute ==
    LET h == Top
        target_node == get_node_for_key(node_failures[h.node], h.key)
    IN  /\ chain # <<>> /\ h.pc = "route"
        /\ UNCHANGED NotHttp
        /\ IF target_node = 0 THEN Finish("500")
           ELSE IF target_node = h.node
           THEN /\ storage' = [storage EXCEPT ![h.node] =
                                  storage_put(@, h.key, h.value)]
                /\ chain' = [chain EXCEPT ![Len(chain)] =
                      [h EXCEPT !.pc = "replicate", !.target = target_node,
                          !.todo = get_replica_nodes(node_failures[h.node],
                                                     target_node)]]
                /\ UNCHANGED <<node_failures, reply>>
           ELSE /\ chain' = [chain EXCEPT ![Len(chain)] =
                      [h EXCEPT !.pc = "forward", !.target = target_node]]
                /\ UNCHANGED <<storage, node_failures, reply>>

\* put_value on another node than the target: forward_request(target_node,
\* "PUT", ...), which sends nothing to a node it holds unhealthy and then
\* returns None, answered by the handler with status 503
HandleForward ==
    LET h == Top IN
    /\ chain # <<>> /\ h.pc = "forward"
    /\ UNCHANGED NotHttp
    /\ IF ~ is_healthy(node_failures[h.node][h.target])
       THEN chain' = [chain EXCEPT ![Len(chain)].pc = "raise"]
       ELSE /\ Len(chain) < MaxChain
            /\ chain' = Append(chain,
                           Handler(h.target, "forwarded", h.key, h.value))
    /\ UNCHANGED <<storage, node_failures, reply>>

\* put_value: for replica in replicas: forward_request(replica, "PUT", ...),
\* whatever it returns; then the response {"status": "success"}
HandleReplicate ==
    LET h == Top IN
    /\ chain # <<>> /\ h.pc = "replicate"
    /\ UNCHANGED NotHttp
    /\ IF h.todo = <<>> THEN Finish("200")
       ELSE /\ IF ~ is_healthy(node_failures[h.node][Head(h.todo)])
               THEN chain' = [chain EXCEPT ![Len(chain)].todo = Tail(@),
                                           ![Len(chain)].attempt = 0]
               ELSE /\ Len(chain) < MaxChain
                    /\ chain' = Append(chain,
                          Handler(Head(h.todo), "replication", h.key, h.value))
            /\ UNCHANGED <<storage, node_failures, reply>>

\* put_value: raise HTTPException(status_code=503)
HandleRaise ==
    /\ chain # <<>> /\ Top.pc = "raise"
    /\ Finish("503")
    /\ UNCHANGED NotHttp

\* the request that handler i awaits has taken longer than the timeout of
\* its session: asyncio.TimeoutError, the node is marked failed
Timeout(i) ==
    LET c == chain[i]
        failures == [node_failures[c.node] EXCEPT
                        ![chain[i + 1].node] = mark_failed(@)]
    IN  /\ node_failures' = [node_failures EXCEPT ![c.node] = failures]
        /\ chain' = Append(SubSeq(chain, 1, i - 1), Resumed(c, FALSE, failures))
        /\ UNCHANGED <<storage, reply, NotHttp>>

----------------------------------------------------------------------------
(* The Get, Put and Delete handlers of KVStoreServicer run by the worker    *)
(* threads of the gRPC server of a node without peers (the only kind of     *)
(* node that accepts writes).  A handler holds no lock of its own: each     *)
(* call into the AuthManager, the ConsensusModule and the KVStore is a step *)
(* and the steps of two handlers interleave.  The replication loop has no   *)
(* peer to call.                                                             *)

Workers == {"w1", "w2"}

IdleWorker ==
    [pc |-> "idle", op |-> "", key |-> "", value |-> "", token |-> EmptyToken,
     version |-> 0, current_version |-> NoVersion, stamped |-> NoVersion,
     rvalue |-> "", expiry |-> NoVersion, current_time |-> 0, used |-> 0,
     todo |-> {}, expired |-> {}]

WorkersIdle == workers = [w \in Workers |-> IdleWorker]

NotWorkers ==
    <<configVars, threadVars, ringVars, healthVars, httpVars, now, granted>>

\* a request arrives and a worker thread takes it
Arrives(w, op, key, value, token, version) ==
    /\ workers[w].pc = "idle"
    /\ workers' = [workers EXCEPT ![w] =
          [IdleWorker EXCEPT !.pc = "auth", !.op = op, !.key = key,
              !.value = value, !.token = token, !.version = version]]
    /\ UNCHANGED <<consensusVars, dataVars, tokens, reply, NotWorkers>>

\* the request of worker w, on which the response is recorded; sawVersion
\* is the version that a Put has stamped, or the version of the entry whose
\* value a Get has read
Serving(n, w) ==
    [EmptyReply EXCEPT !.op = workers[w].op, !.node = n,
        !.key = workers[w].key, !.value = workers[w].value,
        !.token = workers[w].token, !.version = workers[w].version,
        !.sawVersion = workers[w].stamped]

\* the handler returns its response
Responds(w, response) ==
    /\ workers' = [workers EXCEPT ![w] = IdleWorker]
    /\ reply' = response

Continues_at(w, pc) ==
    /\ workers' = [workers EXCEPT ![w].pc = pc]
    /\ UNCHANGED reply

\* _validate_auth
WorkerAuth(n, w) ==
    LET me == workers[w]
        auth == validate_token(tokens[n], me.token)
    IN  /\ me.pc = "auth"
        /\ tokens' = [tokens EXCEPT ![n] = tokens_after_validate(@, me.token)]
        /\ IF auth # "ok"
           THEN Responds(w, [Serving(n, w) EXCEPT !.error = auth])
           ELSE Continues_at(w, "gate")
        /\ UNCHANGED <<consensusVars, dataVars, NotWorkers>>

\* the leader test of Put and Delete and the ownership test of all three
WorkerGate(n, w) ==
    LET me == workers[w]
        gate == IF me.op # "Get" /\ ~ is_leader(n) THEN "Not leader"
                ELSE IF ~ owns_key(n, me.key) THEN "Key belongs to node"
                ELSE "ok"
    IN  /\ me.pc = "gate"
        /\ IF gate # "ok"
           THEN Responds(w, [Serving(n, w) EXCEPT !.error = gate,
                                !.hint = GateHint(n, me.key, gate)])
           ELSE Continues_at(w, CASE me.op = "Put" -> "check"
                                  [] me.op = "Delete" -> "write"
                                  [] me.op = "Get" -> "read")
        /\ UNCHANGED <<consensusVars, dataVars, tokens, NotWorkers>>

\* Put: current_version = self.store.get_version(key) and the conflict test
WorkerCheck(n, w) ==
    LET me == workers[w]
        current_version == get_version(store[n], me.key)
    IN  /\ me.pc = "check"
        /\ IF VersionConflict(current_version, me.version)
           THEN Responds(w, [Serving(n, w) EXCEPT !.error = "Version conflict",
                                !.new_version = current_version])
           ELSE /\ workers' = [workers EXCEPT ![w].pc = "write",
                                  ![w].current_version = current_version]
                /\ UNCHANGED reply
        /\ UNCHANGED <<consensusVars, dataVars, tokens, NotWorkers>>

\* Put: self.store.put(key, value); Delete: self.store.delete(key), after
\* which the Delete handler returns
WorkerWrite(n, w) ==
    LET me == workers[w] IN
    /\ me.pc = "write"
    /\ IF me.op = "Put"
       THEN /\ version_counter[n] < MaxWrites
            /\ store' = [store EXCEPT ![n] =
                            store_put(@, version_counter[n], me.key, me.value)]
            /\ version_counter' = [version_counter EXCEPT ![n] = NextCounter(@)]
            /\ workers' = [workers EXCEPT ![w].pc = "stamp",
                              ![w].stamped = NextCounter(version_counter[n])]
            /\ UNCHANGED reply
       ELSE /\ store' = [store EXCEPT ![n] = store_delete(@, me.key)]
            /\ UNCHANGED version_counter
            /\ Responds(w, [Serving(n, w) EXCEPT
                              !.success = (me.key \in DOMAIN store[n])])
    /\ UNCHANGED <<consensusVars, tokens, NotWorkers>>

\* Put: new_version = self.store.get_version(key), and the response
WorkerStamp(n, w) ==
    LET me == workers[w] IN
    /\ me.pc = "stamp"
    /\ Responds(w, [Serving(n, w) EXCEPT !.success = TRUE,
                       !.new_version = get_version(store[n], me.key)])
    /\ UNCHANGED <<consensusVars, dataVars, tokens, NotWorkers>>

\* Get: value, found = self.store.get(key); an absent key is answered
WorkerRead(n, w) ==
    LET me == workers[w]
        got == store_get(store[n], me.key)
    IN  /\ me.pc = "read"
        /\ IF got[2]
           THEN /\ workers' = [workers EXCEPT ![w].pc = "version",
                                  ![w].rvalue = got[1],
                                  ![w].stamped = store[n][me.key].version]
                /\ UNCHANGED reply
           ELSE Responds(w, Serving(n, w))
        /\ UNCHANGED <<consensusVars, dataVars, tokens, NotWorkers>>

\* Get: version = self.store.get_version(key), and the response
WorkerVersion(n, w) ==
    LET me == workers[w] IN
    /\ me.pc = "version"
    /\ Responds(w, [Serving(n, w) EXCEPT !.found = TRUE,
                       !.rvalue = me.rvalue,
                       !.new_version = get_version(store[n], me.key)])
    /\ UNCHANGED <<consensusVars, dataVars, tokens, NotWorkers>>

----------------------------------------------------------------------------
(* AuthManager used by concurrent threads.  AuthManager has no lock: the    *)
(* statements of validate_token and cleanup_expired_tokens of different     *)
(* threads interleave.  An exception that leaves the method is recorded as  *)
(* the error of the call, under the name of the exception.                  *)

KeyError == "KeyError"
RuntimeError == "RuntimeError"
Raised == {KeyError, RuntimeError}

\* a thread enters validate_token(token) or cleanup_expired_tokens()
TokenCall(w, op, token) ==
    /\ workers[w].pc = "idle"
    /\ workers' = [workers EXCEPT ![w] =
          [IdleWorker EXCEPT !.op = op, !.token = token,
              !.pc = IF op = "validate_token" THEN "contains" ELSE "iter"]]
    /\ UNCHANGED <<consensusVars, dataVars, tokens, reply, NotWorkers>>

\* the call of thread w, on which what it returns or raises is recorded
TokenReturn(n, w, success, error) ==
    Responds(w, [EmptyReply EXCEPT !.op = workers[w].op, !.node = n,
                    !.token = workers[w].token, !.success = success,
                    !.error = error])

\* validate_token: if token not in self.tokens
ValidateContains(n, w) ==
    LET me == workers[w] IN
    /\ me.op = "validate_token" /\ me.pc = "contains"
    /\ IF me.token \notin DOMAIN tokens[n]
       THEN TokenReturn(n, w, FALSE, "Invalid token")
       ELSE Continues_at(w, "lookup")
    /\ UNCHANGED <<consensusVars, dataVars, tokens, NotWorkers>>

\* validate_token: expiry, api_key = self.tokens[token]
ValidateLookup(n, w) ==
    LET me == workers[w] IN
    /\ me.op = "validate_token" /\ me.pc = "lookup"
    /\ IF me.token \notin DOMAIN tokens[n]
       THEN TokenReturn(n, w, FALSE, KeyError)
       ELSE /\ workers' = [workers EXCEPT ![w].pc = "expire",
                              ![w].expiry = tokens[n][me.token][1]]
            /\ UNCHANGED reply
    /\ UNCHANGED <<consensusVars, dataVars, tokens, NotWorkers>>

\* validate_token: if time.time() > expiry, else return True, None
ValidateExpire(n, w) ==
    LET me == workers[w] IN
    /\ me.op = "validate_token" /\ me.pc = "expire"
    /\ IF Expired(now, me.expiry)
       THEN Continues_at(w, "del")
       ELSE TokenReturn(n, w, TRUE, "")
    /\ UNCHANGED <<consensusVars, dataVars, tokens, NotWorkers>>

\* validate_token: del self.tokens[token]; return False, "Token expired"
ValidateDel(n, w) ==
    LET me == workers[w] IN
    /\ me.op = "validate_token" /\ me.pc = "del"
    /\ IF me.token \notin DOMAIN tokens[n]
       THEN /\ TokenReturn(n, w, FALSE, KeyError)
            /\ UNCHANGED tokens
       ELSE /\ tokens' = [tokens EXCEPT ![n] =
                            [t \in DOMAIN @ \ {me.token} |-> @[t]]]
            /\ TokenReturn(n, w, FALSE, "Token expired")
    /\ UNCHANGED <<consensusVars, dataVars, NotWorkers>>

\* cleanup_expired_tokens: current_time = time.time() and the iterator of
\* self.tokens.items(), which remembers the size of the dict
CleanupIter(n, w) ==
    LET me == workers[w] IN
    /\ me.op = "cleanup_expired_tokens" /\ me.pc = "iter"
    /\ workers' = [workers EXCEPT ![w].pc = "next",
                      ![w].current_time = now,
                      ![w].used = Cardinality(DOMAIN tokens[n]),
                      ![w].todo = DOMAIN tokens[n]]
    /\ UNCHANGED <<consensusVars, dataVars, tokens, reply, NotWorkers>>

\* cleanup_expired_tokens: one step of the list comprehension; the iterator
\* raises when the dict has changed size, and ends when no item is left
CleanupNext(n, w) ==
    LET me == workers[w]
        left == me.todo \cap DOMAIN tokens[n]
    IN  /\ me.op = "cleanup_expired_tokens" /\ me.pc = "next"
        /\ IF Cardinality(DOMAIN tokens[n]) # me.used
           THEN TokenReturn(n, w, FALSE, RuntimeError)
           ELSE IF left = {}
           THEN Continues_at(w, "sweep")
           ELSE /\ \E t \in left :
                     workers' = [workers EXCEPT
                        ![w].todo = @ \ {t},
                        ![w].expired =
                            IF Expired(me.current_time, tokens[n][t][1])
                            THEN @ \cup {t} ELSE @]
                /\ UNCHANGED reply
        /\ UNCHANGED <<consensusVars, dataVars, tokens, NotWorkers>>

\* cleanup_expired_tokens: for token in expired: del self.tokens[token]
CleanupDel(n, w) ==
    LET me == workers[w] IN
    /\ me.op = "cleanup_expired_tokens" /\ me.pc = "sweep"
    /\ IF me.expired = {}
       THEN /\ TokenReturn(n, w, TRUE, "")
            /\ UNCHANGED tokens
       ELSE \E t \in me.expired :
              IF t \notin DOMAIN tokens[n]
              THEN /\ TokenReturn(n, w, FALSE, KeyError)
                   /\ UNCHANGED tokens
              ELSE /\ tokens' = [tokens EXCEPT ![n] =
                                   [u \in DOMAIN @ \ {t} |-> @[u]]]
                   /\ workers' = [workers EXCEPT ![w].expired = @ \ {t}]
                   /\ UNCHANGED reply
    /\ UNCHANGED <<consensusVars, dataVars, NotWorkers>>

----------------------------------------------------------------------------
(* KVStore used by concurrent threads (tests/test_store.py, the gRPC worker *)
(* pool).  Every method body runs inside "with self._lock"; the body is     *)
(* split into the reads and writes it makes one after the other.            *)

Threads == {"t1", "t2"}
NoThread == "none"

IdleThread ==
    [pc |-> "idle", op |-> "", key |-> "", value |-> "", todo |-> <<>>,
     acc |-> <<>>, ret |-> <<>>, seen |-> <<>>, serial |-> TRUE]

ThreadsIdle ==
    /\ threads = [t \in Threads |-> IdleThread]
    /\ lock = NoThread
    /\ put_log = {}

StoreOps == {"put", "get", "delete", "get_version", "get_all"}

\* the order in which get_all walks the dictionary
KeyOrder == <<"key1", "key2">>

\* RLock.acquire: the lock is free, or held by the caller already
LockIgnored(t) == TRUE
LockFree(t) == lock \in {NoThread, t}

\* what a call returns and leaves behind when nothing runs beside it
SequentialCall(op, s, counter, key, value) ==
    CASE op = "put" -> <<<<TRUE>>, store_put(s, counter, key, value),
                         NextCounter(counter)>>
      [] op = "get" -> <<store_get(s, key), s, counter>>
      [] op = "delete" -> <<<<key \in DOMAIN s>>, store_delete(s, key), counter>>
      [] op = "get_version" -> <<<<get_version(s, key)>>, s, counter>>
      [] op = "get_all" -> <<<<store_get_all(s)>>, s, counter>>

\* "with self._lock:" entered; the call starts on the store as it is now
Begin(n, t, op, key, value) ==
    /\ threads[t].pc = "idle"
    /\ LockFree(t)
    /\ op = "put" => version_counter[n] < MaxVersion
    /\ lock' = t
    /\ threads' = [threads EXCEPT ![t] =
          [IdleThread EXCEPT !.pc = op, !.op = op, !.key = key,
              !.value = value,
              !.todo = IF op = "get_all" THEN KeyOrder ELSE <<>>,
              !.seen = <<store[n], version_counter[n]>>]]
    /\ put_log' = IF op = "put" THEN put_log \cup {<<key, value>>} ELSE put_log
    /\ UNCHANGED <<consensusVars, configVars, dataVars, tokens, now, granted,
                   reply, ringVars, healthVars, workerVars, httpVars>>

\* the thread leaves the method with result r; s and c are the store and
\* counter it leaves behind, compared with those of the call made alone on
\* the store the thread found
Return(n, t, r, s, c) ==
    /\ threads' = [threads EXCEPT ![t].pc = "idle", ![t].ret = r,
          ![t].todo = <<>>, ![t].acc = <<>>, ![t].seen = <<>>,
          ![t].serial =
              (<<r, s, c>> = SequentialCall(threads[t].op, threads[t].seen[1],
                                 threads[t].seen[2], threads[t].key,
                                 threads[t].value))]
    /\ lock' = IF lock = t THEN NoThread ELSE lock

Goto(t, pc) ==
    /\ threads' = [threads EXCEPT ![t].pc = pc]
    /\ UNCHANGED lock

\* one read or write of the method body
Step(n, t) ==
    LET th == threads[t]
        s == store[n]
        c == version_counter[n]
        present == th.key \in DOMAIN s
    IN
    /\ th.pc # "idle"
    /\ CASE th.pc = "put" ->
              /\ version_counter' = [version_counter EXCEPT ![n] = NextCounter(@)]
              /\ Goto(t, "put_store")
              /\ UNCHANGED store
         [] th.pc = "put_store" ->
              /\ store' = [store EXCEPT ![n] =
                    [k \in DOMAIN s \cup {th.key} |->
                        IF k = th.key THEN [data |-> th.value, version |-> c]
                        ELSE s[k]]]
              /\ Return(n, t, <<TRUE>>, store'[n], c)
              /\ UNCHANGED version_counter
         [] th.pc \in {"get", "get_version"} ->
              /\ IF present THEN Goto(t, th.pc \o "_read")
                 ELSE Return(n, t, IF th.pc = "get" THEN <<NoData, FALSE>>
                                   ELSE <<NoVersion>>, s, c)
              /\ UNCHANGED dataVars
         [] th.pc = "get_read" ->
              /\ Return(n, t, IF present THEN <<s[th.key].data, TRUE>>
                              ELSE <<"KeyError">>, s, c)
              /\ UNCHANGED dataVars
         [] th.pc = "get_version_read" ->
              /\ Return(n, t, IF present THEN <<s[th.key].version>>
                              ELSE <<"KeyError">>, s, c)
              /\ UNCHANGED dataVars
         [] th.pc = "delete" ->
              /\ IF present THEN Goto(t, "delete_del")
                 ELSE Return(n, t, <<FALSE>>, s, c)
              /\ UNCHANGED dataVars
         [] th.pc = "delete_del" ->
              /\ store' = [store EXCEPT ![n] = store_delete(@, th.key)]
              /\ Return(n, t, IF present THEN <<TRUE>> ELSE <<"KeyError">>,
                        store'[n], c)
              /\ UNCHANGED version_counter
         [] th.pc = "get_all" ->
              LET k == Head(th.todo)
                  acc == IF k \in DOMAIN s
                         THEN [j \in DOMAIN th.acc \cup {k} |->
                                  IF j = k THEN s[k].data ELSE th.acc[j]]
                         ELSE th.acc
              IN  /\ IF Len(th.todo) > 1
                     THEN /\ threads' = [threads EXCEPT ![t].todo = Tail(@),
                                                        ![t].acc = acc]
                          /\ UNCHANGED lock
                     ELSE Return(n, t, <<acc>>, s, c)
                  /\ UNCHANGED dataVars
    /\ UNCHANGED <<consensusVars, configVars, tokens, now, granted, reply,
                   put_log, ringVars, healthVars, workerVars, httpVars>>

----------------------------------------------------------------------------
(* Initial state: the nodes of one cluster, each just constructed *)

InitNodes(sizes) ==
    \E size \in sizes :
        /\ peers = [n \in 1..size |-> PeersOf(n, 1, size)]
        /\ current_term = [n \in 1..size |-> 0]
        /\ voted_for = [n \in 1..size |-> None]
        /\ state = [n \in 1..size |-> FOLLOWER]
        /\ leader_id = [n \in 1..size |-> None]
        /\ last_heartbeat = [n \in 1..size |-> 0]
        /\ store = [n \in 1..size |-> <<>>]
        /\ version_counter = [n \in 1..size |-> 0]
        /\ shard_allocation = [n \in 1..size |->
              InitialAllocation(ServicerNodeList(n, PeersOf(n, 1, size)))]
        /\ shard_order = [n \in 1..size |-> AllShards]
        /\ owned_shards = [n \in 1..size |->
              InitialOwned(NodeId(n), ServicerNodeList(n, PeersOf(n, 1, size)))]
        /\ api_keys = [n \in 1..size |-> [k \in {"demo-key"} |-> "admin"]]
        /\ tokens = [n \in 1..size |-> <<>>]
        /\ now = 0
        /\ granted = [n \in 1..size |-> {}]
        /\ reply = EmptyReply

\* no thread of a test is running, no ring has been built
InitCluster(sizes) ==
    /\ InitNodes(sizes)
    /\ ThreadsIdle
    /\ RingsEmpty /\ vhash = [v \in VirtualKeys |-> 0]
    /\ HealthIdle
    /\ WorkersIdle
    /\ HttpIdle

\* the ids a vote or heartbeat request may name
RequestIds == { NodeId(i) : i \in Nodes }

----------------------------------------------------------------------------
(* Spec: one or two nodes under arbitrary vote and heartbeat requests *)

Init == InitCluster(SmallClusters)

Next ==
    \/ Tick(Instants(MaxShortTicks, 0))
    \/ \E n \in Nodes : ElectionTimer(n, MaxTerm)
    \/ \E n \in Nodes, c \in RequestIds, t \in 0..MaxTerm : RequestVote(n, c, t)
    \/ \E n \in Nodes, c \in RequestIds, t \in 0..MaxTerm : AppendEntries(n, t, c)

Spec == Init /\ [][Next]_vars

----------------------------------------------------------------------------
(* SpecKV: one or two nodes serving clients, timers running *)

InitKV == InitCluster(SmallClusters)

ClientCall ==
    \/ \E n \in Nodes, a \in ApiKeyInputs : Authenticate(n, a)
    \/ \E n \in Nodes, k \in Keys, t \in TokenIds \cup {EmptyToken} : Get(n, k, t)
    \/ \E n \in Nodes, k \in Keys, v \in Values,
          t \in TokenIds \cup {EmptyToken}, e \in 0..MaxVersion : Put(n, k, v, t, e)
    \/ \E n \in Nodes, k \in Keys, t \in TokenIds \cup {EmptyToken} : Delete(n, k, t)

NextKV ==
    \/ Tick(Instants(1, MaxLongTicks))
    \/ \E n \in Nodes : ElectionTimer(n, MaxElections)
    \/ ClientCall

SpecKV == InitKV /\ [][NextKV]_vars

----------------------------------------------------------------------------
(* SpecDemo: the three-node cluster serving clients, timers running *)

InitDemo == InitCluster(DemoCluster)

NextDemo ==
    \/ Tick(Instants(MaxShortTicks, 0))
    \/ \E n \in Nodes : ElectionTimer(n, MaxElections)
    \/ ClientCall

SpecDemo == InitDemo /\ [][NextDemo]_vars

----------------------------------------------------------------------------
(* SpecTimers: the three-node cluster left to itself, timers running *)

InitTimers == InitCluster(DemoCluster)

NextTimers ==
    \/ Tick(Instants(MaxShortTicks, MaxLongTicks))
    \/ \E n \in Nodes : ElectionTimer(n, MaxTerm)

SpecTimers ==
    /\ InitTimers
    /\ [][NextTimers]_vars
    /\ WF_vars(Tick(Instants(MaxShortTicks, MaxLongTicks)))
    /\ \A n \in DemoNodes : WF_vars(ElectionTimer(n, MaxTerm))

----------------------------------------------------------------------------
(* SpecStore: one node; its store is used by the data RPCs, by Replicate   *)
(* and by direct calls of the KVStore methods                              *)

SingleNode == {1}

InitStore == InitCluster(SingleNode)

ReplicateCall ==
    \E n \in Nodes, o \in {"PUT", "DELETE"}, k \in Keys, v \in Values :
        Replicate(n, o, k, v)

StoreCall ==
    \/ \E n \in Nodes, k \in Keys, v \in Values : CallPut(n, k, v)
    \/ \E n \in Nodes, k \in Keys : CallGet(n, k)
    \/ \E n \in Nodes, k \in Keys : CallDelete(n, k)
    \/ \E n \in Nodes, k \in Keys : CallGetVersion(n, k)
    \/ \E n \in Nodes : CallGetAll(n)

NextStore ==
    \/ Tick(Instants(1, MaxLongTicks))
    \/ \E n \in Nodes : ElectionTimer(n, MaxElections)
    \/ ClientCall
    \/ ReplicateCall
    \/ StoreCall

SpecStore == InitStore /\ [][NextStore]_vars

----------------------------------------------------------------------------
(* SpecRepl: one or two nodes receiving Replicate calls, timers running *)

InitRepl == InitCluster(SmallClusters)

NextRepl ==
    \/ Tick(Instants(MaxShortTicks, 0))
    \/ \E n \in Nodes : ElectionTimer(n, MaxElections)
    \/ ReplicateCall

SpecRepl == InitRepl /\ [][NextRepl]_vars

----------------------------------------------------------------------------
(* SpecAuth: the AuthManager of one node and the clock *)

InitAuth == InitCluster(SingleNode)

AuthCall ==
    \/ \E n \in Nodes, a \in ApiKeyInputs : Authenticate(n, a)
    \/ \E n \in Nodes, t \in TokenIds \cup {EmptyToken} : ValidateToken(n, t)

NextAuth ==
    \/ Tick(Instants(MaxShortTicks, MaxLongTicks))
    \/ AuthCall

SpecAuth == InitAuth /\ [][NextAuth]_vars

----------------------------------------------------------------------------
(* SpecThreads: two threads calling the methods of one KVStore *)

InitThreads == InitCluster(SingleNode)

NextThreads ==
    \/ \E n \in Nodes, t \in Threads, op \in StoreOps, k \in Keys,
          v \in Values : Begin(n, t, op, k, v)
    \/ \E n \in Nodes, t \in Threads : Step(n, t)

SpecThreads == InitThreads /\ [][NextThreads]_vars

----------------------------------------------------------------------------
(* SpecRing: one hash ring, a HashRing or a ConsistentHashing, built up and  *)
(* taken down by add_node and remove_node; the hashes of the virtual node    *)
(* keys are any positions                                                    *)

InitRing ==
    /\ InitNodes(SingleNode)
    /\ ThreadsIdle
    /\ RingsEmpty
    /\ vhash \in [VirtualKeys -> Positions]
    /\ HealthIdle
    /\ WorkersIdle
    /\ HttpIdle

RingCall ==
    \/ \E n \in RingNodes : HashRing_add_node(n)
    \/ \E n \in RingNodes : HashRing_remove_node(n)
    \/ \E n \in RingNodes : ConsistentHashing_add_node(n, Addr(n))
    \/ \E n \in RingNodes : ConsistentHashing_remove_node(n)

\* how many nodes get_nodes is asked for
Counts == 1..Cardinality(RingNodes)

RingLookup ==
    \/ \E h \in Positions : HashRing_get_node(h)
    \/ \E h \in Positions, count \in Counts : HashRing_get_nodes(h, count)
    \/ \E h \in Positions : ConsistentHashing_get_node(h)

NextRing == RingCall \/ RingLookup

SpecRing == InitRing /\ [][NextRing]_vars

----------------------------------------------------------------------------
(* SpecShards: the ShardManager of the first node of the three-node         *)
(* cluster, as KVStoreServicer.__init__ leaves it, and the calls of its     *)
(* methods                                                                   *)

InitShards == InitCluster(DemoCluster)

\* the node lists handed to assign_initial_shards and rebalance_shards
NodeLists ==
    {<<NodeId(1), Addr(2), Addr(3)>>, <<Addr(2), NodeId(1), Addr(3)>>,
     <<NodeId(1), Addr(2)>>, <<Addr(2), Addr(3)>>, <<NodeId(1)>>}

\* the shards handed to add_shard and remove_shard: those of the two keys
ProbeShards == { calculate_shard(k) : k \in Keys }

NextShards ==
    \/ \E n \in SingleNode, nodes \in NodeLists : assign_initial_shards(n, nodes)
    \/ \E n \in SingleNode, s \in ProbeShards : add_shard(n, s)
    \/ \E n \in SingleNode, s \in ProbeShards : remove_shard(n, s)
    \/ \E n \in SingleNode, nodes \in NodeLists : RebalanceShards(n, nodes)

SpecShards == InitShards /\ [][NextShards]_vars

----------------------------------------------------------------------------
(* SpecHealth: the node manager forwarding requests to peers that go down   *)
(* and come back.  The event loop runs every task that can take a step, so  *)
(* the steps of a call in progress are weakly fair; and the health of every *)
(* peer is checked again and again by every caller.  The peers go down and  *)
(* come back as they like.                                                  *)

InitHealth == InitCluster(SingleNode)

NextHealth == ManagerStep \/ PeerStep

\* a step of the call in progress of caller c
Continues(c) == (SendRequest(c) \/ Response(c)) /\ UNCHANGED NotHealth

\* caller c begins a health check of peer p
Checks(c, p) == check_node_health(c, p) /\ UNCHANGED NotHealth

SpecHealth ==
    /\ InitHealth /\ [][NextHealth]_vars
    /\ \A c \in Callers : WF_vars(Continues(c))
    /\ \A c \in Callers, p \in ManagedNodes : SF_vars(Checks(c, p))

----------------------------------------------------------------------------
(* SpecHeartbeat: one node without peers, the only kind of node that wins   *)
(* its election, receiving AppendEntries requests that name itself or       *)
(* another node as the leader                                               *)

InitHeartbeat == InitCluster(SingleNode)

\* the leader ids that an AppendEntries request may carry
SenderIds == { NodeId(i) : i \in RingNodes }

NextHeartbeat ==
    \/ Tick(Instants(MaxShortTicks, 0))
    \/ \E n \in Nodes : ElectionTimer(n, MaxTerm)
    \/ \E n \in Nodes, c \in SenderIds, t \in 0..MaxTerm : AppendEntries(n, t, c)

SpecHeartbeat == InitHeartbeat /\ [][NextHeartbeat]_vars

----------------------------------------------------------------------------------------------------------------------------------------
(* SpecWorkers: one node without peers, its election timer, and two worker  *)
(* threads serving client requests for one key                              *)

InitWorkers == InitCluster(SingleNode)

\* the key and the expected versions of the requests
WorkerKeys == {"key1"}
ExpectedVersions == 0..1

WorkerCall(ws) ==
    \E w \in ws, k \in WorkerKeys, t \in TokenIds :
        \/ \E v \in Values, e \in ExpectedVersions : Arrives(w, "Put", k, v, t, e)
        \/ Arrives(w, "Delete", k, "", t, 0)
        \/ Arrives(w, "Get", k, "", t, 0)

WorkerStep(ws) ==
    \E n \in SingleNode, w \in ws :
        \/ WorkerAuth(n, w)
        \/ WorkerGate(n, w)
        \/ WorkerCheck(n, w)
        \/ WorkerWrite(n, w)
        \/ WorkerStamp(n, w)
        \/ WorkerRead(n, w)
        \/ WorkerVersion(n, w)

NextWorkers ==
    \/ Tick(Instants(MaxShortTicks, 0))
    \/ \E n \in Nodes : ElectionTimer(n, MaxElections)
    \/ \E n \in Nodes : \E a \in DOMAIN api_keys[n] : Authenticate(n, a)
    \/ WorkerCall(Workers)
    \/ WorkerStep(Workers)

SpecWorkers == InitWorkers /\ [][NextWorkers]_vars

----------------------------------------------------------------------------
(* SpecStepDown: the same node with one worker thread, receiving heartbeats *)
(* and vote requests of another node while the worker serves a request      *)

InitStepDown == InitCluster(SingleNode)

OneWorker == {"w1"}

NextStepDown ==
    \/ Tick(Instants(MaxShortTicks, 0))
    \/ \E n \in Nodes : ElectionTimer(n, MaxTerm)
    \/ \E n \in Nodes : \E c \in SenderIds \ {NodeId(n)}, t \in 0..MaxTerm :
          AppendEntries(n, t, c) \/ RequestVote(n, c, t)
    \/ \E n \in Nodes : \E a \in DOMAIN api_keys[n] : Authenticate(n, a)
    \/ WorkerCall(OneWorker)
    \/ WorkerStep(OneWorker)

SpecStepDown == InitStepDown /\ [][NextStepDown]_vars

----------------------------------------------------------------------------
(* SpecTokens: the AuthManager of one node, the clock, and two threads that *)
(* validate tokens and clean up expired tokens                              *)

InitTokens == InitCluster(SingleNode)

TokenThreadCall ==
    \E w \in Workers :
        \/ \E t \in TokenIds : TokenCall(w, "validate_token", t)
        \/ TokenCall(w, "cleanup_expired_tokens", EmptyToken)

TokenThreadStep ==
    \E n \in SingleNode, w \in Workers :
        \/ ValidateContains(n, w)
        \/ ValidateLookup(n, w)
        \/ ValidateExpire(n, w)
        \/ ValidateDel(n, w)
        \/ CleanupIter(n, w)
        \/ CleanupNext(n, w)
        \/ CleanupDel(n, w)

NextTokens ==
    \/ Tick(Instants(MaxShortTicks, MaxLongTicks))
    \/ \E n \in Nodes : \E a \in DOMAIN api_keys[n] : Authenticate(n, a)
    \/ TokenThreadCall
    \/ TokenThreadStep

SpecTokens == InitTokens /\ [][NextTokens]_vars

----------------------------------------------------------------------------
(* SpecHttp: the nodes of the HTTP variant, all healthy at the start, and   *)
(* clients that put values, one request at a time                           *)

InitHttp == InitCluster(SingleNode)

HttpStep ==
    \/ HandleRoute
    \/ HandleForward
    \/ HandleReplicate
    \/ HandleRaise

NextHttp ==
    \/ \E n \in HttpNodes, k \in Keys, v \in Values : ClientPut(n, k, v)
    \/ HttpStep
    \/ \E i \in 1..(Len(chain) - 1) : Timeout(i)

SpecHttp == InitHttp /\ [][NextHttp]_vars

----------------------------------------------------------------------------
(* Properties of the election protocol *)

Leaders == { n \in Nodes : state[n] = LEADER }

\* C1: no two distinct nodes are LEADER with the same current_term, after any
\* interleaving of election timers and vote / heartbeat requests.
C1_AtMostOneLeaderPerTerm ==
    \A n \in Nodes, m \in Nodes :
        (n # m /\ state[n] = LEADER /\ state[m] = LEADER)
            => current_term[n] # current_term[m]

\* a node leads in term 2, having first followed a heartbeat of term 1
C1_Witness ==
    \E n \in Nodes :
        /\ state[n] = LEADER
        /\ current_term[n] = 2
        /\ leader_id[n] = NodeId(n)
        /\ reply.op = "AppendEntries" /\ reply.node = n /\ reply.success

\* C2: while its current_term is T a node gives its vote to at most one
\* candidate, its own vote of _start_election included.
C2_VoteUniqueness ==
    \A n \in Nodes : Cardinality(granted[n]) <= 1

\* a node that voted for itself refuses another candidate of the same term
C2_Witness ==
    /\ reply.op = "RequestVote"
    /\ ~ reply.success
    /\ reply.term = current_term[reply.node]
    /\ reply.candidate # NodeId(reply.node)
    /\ granted[reply.node] = {NodeId(reply.node)}

\* C3: no step lowers a node's current_term.
C3_TermMonotonic ==
    [][\A n \in Nodes : current_term'[n] >= current_term[n]]_vars

\* a request of a lower term was turned down and the term kept
C3_Witness ==
    /\ reply.op \in {"RequestVote", "AppendEntries"}
    /\ reply.term < reply.rterm
    /\ ~ reply.success
    /\ current_term[reply.node] = reply.rterm

----------------------------------------------------------------------------
(* Properties of the data RPCs *)

DataOps == {"Get", "Put", "Delete"}
AuthErrors == {"Invalid token", "Token expired"}

\* C5: with a valid token, Get, Put and Delete reply "Key belongs to node"
\* exactly when the node is not the owner of the key's shard, whatever the
\* node's role.
C5_OwnershipGating ==
    (reply.op \in DataOps /\ reply.sawToken = "live")
        => (reply.error = "Key belongs to node" <=> ~ reply.sawOwner)

\* C6: with a valid token, Put and Delete reply "Not leader" exactly when the
\* node is not LEADER at the check; Get never replies "Not leader".
C6_LeaderGating ==
    /\ (reply.op \in {"Put", "Delete"} /\ reply.sawToken = "live")
          => (reply.error = "Not leader" <=> ~ reply.sawLeader)
    /\ reply.op = "Get" => reply.error # "Not leader"

\* the owner of the key's shard turns a write down because it is not leader
C6_Witness ==
    /\ reply.op \in {"Put", "Delete"}
    /\ reply.sawToken = "live"
    /\ reply.sawOwner
    /\ ~ reply.sawLeader
    /\ reply.error = "Not leader"
    /\ reply.hint = leader_id[reply.node]

C8_VersionConflict ==
    /\ []((reply.op = "Put" /\ reply.sawToken = "live"
             /\ reply.sawLeader /\ reply.sawOwner
             /\ reply.version # 0
             /\ reply.sawVersion \notin {NoVersion, 0}
             /\ reply.sawVersion # reply.version)
          => (~ reply.success /\ reply.error = "Version conflict"
                /\ reply.new_version = reply.sawVersion /\ reply.sent = {}))
    /\ []((reply.op = "Put" /\ reply.version = 0)
          => reply.error # "Version conflict")
    /\ [][reply'.error = "Version conflict" => UNCHANGED dataVars]_vars

\* a Put expecting version 2 of a key stored at version 1 is turned down
C8_Witness ==
    /\ reply.op = "Put"
    /\ reply.error = "Version conflict"
    /\ reply.sawVersion = 1 /\ reply.version = 2
    /\ store[reply.node][reply.key].version = 1

\* C9: a Put expecting version V-1 of a key stored at version V >= 1 (V = 1
\* included) is turned down with "Version conflict" and new_version = V, and
\* the stored entry stays.
C9_StaleVersionRejected ==
    (reply.op = "Put" /\ reply.sawToken = "live"
       /\ reply.sawLeader /\ reply.sawOwner
       /\ reply.sawVersion >= 1
       /\ reply.version = reply.sawVersion - 1)
    => (/\ ~ reply.success
        /\ reply.error = "Version conflict"
        /\ reply.new_version = reply.sawVersion
        /\ store[reply.node][reply.key].version = reply.sawVersion)

\* C10: in the three-node cluster a Put with a valid token and no expected
\* version, sent to the owner of the key's shard, succeeds.
C10_OwnerAcceptsPut ==
    (reply.op = "Put" /\ reply.sawToken = "live" /\ reply.sawOwner
       /\ reply.version = 0 /\ Cardinality(Nodes) = Cardinality(DemoNodes))
    => reply.success

----------------------------------------------------------------------------
(* Properties of the store, checked on one node (SpecStore) *)

\* the operations that add an entry to a store
PutOps == {"Put", "put", "Replicate"}

\* C11: a Put that succeeded with new_version r leaves the entry (v, r) in
\* the store, r = 1 for the first write of a fresh node; a Get that passes
\* its checks answers with the entry the store holds (value, found = true,
\* version); put(k, v) is answered True and get(k) returns (v, True) of the
\* entry held.
C11_PutThenGet ==
    /\ (reply.op = "Put" /\ reply.success)
         => (/\ reply.key \in DOMAIN store[reply.node]
             /\ store[reply.node][reply.key] =
                  [data |-> reply.value, version |-> reply.new_version]
             /\ (version_counter[reply.node] = 1 => reply.new_version = 1))
    /\ (reply.op = "Get" /\ reply.error = ""
          /\ reply.key \in DOMAIN store[reply.node])
         => (/\ reply.found
             /\ reply.rvalue = store[reply.node][reply.key].data
             /\ reply.new_version = store[reply.node][reply.key].version)
    /\ (reply.op = "put")
         => (/\ reply.success
             /\ reply.key \in DOMAIN store[reply.node]
             /\ store[reply.node][reply.key].data = reply.value)
    /\ (reply.op = "get" /\ reply.key \in DOMAIN store[reply.node])
         => (/\ reply.found
             /\ reply.rvalue = store[reply.node][reply.key].data)

\* a Get answers with the value and version of the second write of the node
C11_Witness ==
    /\ reply.op = "Get" /\ reply.found
    /\ reply.rvalue = "b" /\ reply.new_version = 2
    /\ version_counter[reply.node] = 2

\* C12: delete(k) returns True exactly when k was present and leaves k
\* absent; get(k) of an absent key returns (None, False) and a Get of it
\* found = false; a key comes back only by a put; a delete or get of an
\* absent key changes neither the entries nor the version counter.
C12_DeleteThenGet ==
    /\ [](/\ (reply.op = "delete" \/ (reply.op = "Delete" /\ reply.error = ""))
               => (/\ reply.success = (reply.sawVersion # NoVersion)
                   /\ reply.key \notin DOMAIN store[reply.node])
          /\ (reply.op = "get" /\ reply.key \notin DOMAIN store[reply.node])
               => (reply.rvalue = NoData /\ ~ reply.found)
          /\ (reply.op = "Get" /\ reply.error = ""
                /\ reply.key \notin DOMAIN store[reply.node])
               => ~ reply.found)
    /\ [][/\ \A n \in Nodes : \A k \in DOMAIN store'[n] \ DOMAIN store[n] :
                reply'.op \in PutOps /\ reply'.key = k /\ reply'.node = n
          /\ (reply'.op \in {"delete", "get"} /\ reply'.sawVersion = NoVersion)
                => UNCHANGED dataVars]_vars

\* a delete that found its key has emptied a store that was written before
C12_Witness ==
    /\ reply.op = "delete" /\ reply.success
    /\ version_counter[reply.node] >= 1
    /\ DOMAIN store[reply.node] = {}

\* C14 as stated: get_version of an absent key returns 0
C14_AbsentIsZero ==
    (reply.op = "get_version" /\ reply.key \notin DOMAIN store[reply.node])
    => reply.new_version = 0

\* C14: get_version(k) returns None when k is absent, and the stored
\* version, which is at least 1, when k is present.
C14_AbsentIsNone ==
    reply.op = "get_version"
    => IF reply.key \in DOMAIN store[reply.node]
       THEN /\ reply.new_version = store[reply.node][reply.key].version
            /\ reply.new_version >= 1
       ELSE reply.new_version = NoVersion

\* get_version of a key that was written and deleted again
C14_Witness ==
    /\ reply.op = "get_version"
    /\ reply.key \notin DOMAIN store[reply.node]
    /\ version_counter[reply.node] >= 1
    /\ reply.new_version = NoVersion

\* C13: every put, whether made by a Put RPC, a Replicate RPC or a direct
\* call, stamps the entry with the counter after its increment, which is
\* greater than the counter before and so greater than every version stamped
\* before; the counter never goes down, every stored version is at most the
\* counter, and no two entries of a store carry the same version.
C13_VersionsIncrease ==
    /\ [](\A n \in Nodes :
            /\ \A k \in DOMAIN store[n] :
                  store[n][k].version >= 1
                  /\ store[n][k].version <= version_counter[n]
            /\ \A j, k \in DOMAIN store[n] :
                  store[n][j].version = store[n][k].version => j = k)
    /\ [](reply.op \in PutOps /\ reply.success
            /\ (reply.op = "Replicate" => reply.operation = "PUT")
          => /\ reply.key \in DOMAIN store[reply.node]
             /\ store[reply.node][reply.key].version
                  = version_counter[reply.node])
    /\ [][\A n \in Nodes :
            /\ version_counter'[n] >= version_counter[n]
            /\ \A k \in DOMAIN store'[n] :
                  (k \notin DOMAIN store[n] \/ store'[n][k] # store[n][k])
                  => store'[n][k].version > version_counter[n]]_vars

\* a key deleted and put again by a Replicate call carries version 2
C13_Witness ==
    /\ reply.op = "Replicate" /\ reply.operation = "PUT"
    /\ reply.sawVersion = NoVersion
    /\ store[reply.node][reply.key].version = 2
    /\ DOMAIN store[reply.node] = {reply.key}

----------------------------------------------------------------------------
(* Properties of the Replicate RPC, checked under SpecRepl *)

\* C18: a Replicate call is applied whatever the role of the node, whoever
\* owns the key, and without a token: PUT stores the value under a version
\* one above the node's counter, DELETE removes the key; the call changes
\* nothing but that entry and that counter.
C18_ReplicateUnconditional ==
    /\ [](reply.op = "Replicate"
          => IF reply.operation = "PUT"
             THEN /\ reply.success
                  /\ reply.key \in DOMAIN store[reply.node]
                  /\ store[reply.node][reply.key] =
                       [data |-> reply.value,
                        version |-> version_counter[reply.node]]
             ELSE /\ reply.success = (reply.sawVersion # NoVersion)
                  /\ reply.key \notin DOMAIN store[reply.node])
    /\ [][(reply'.op = "Replicate"
             /\ (reply' # reply \/ dataVars' # dataVars))
          => /\ UNCHANGED <<consensusVars, configVars, standaloneVars, tokens,
                            now, granted>>
             /\ \A n \in Nodes \ {reply'.node} :
                   store'[n] = store[n]
                   /\ version_counter'[n] = version_counter[n]
             /\ \A k \in Keys \ {reply'.key} :
                   /\ (k \in DOMAIN store'[reply'.node])
                        = (k \in DOMAIN store[reply'.node])
                   /\ k \in DOMAIN store[reply'.node]
                        => store'[reply'.node][k] = store[reply'.node][k]
             /\ version_counter'[reply'.node] =
                  IF reply'.operation = "PUT"
                  THEN version_counter[reply'.node] + 1
                  ELSE version_counter[reply'.node]]_vars

\* a follower that does not own the key has overwritten it on a PUT
C18_Witness ==
    /\ reply.op = "Replicate" /\ reply.operation = "PUT"
    /\ ~ reply.sawLeader /\ ~ reply.sawOwner
    /\ reply.token = EmptyToken
    /\ reply.sawVersion = 1
    /\ store[reply.node][reply.key] = [data |-> reply.value, version |-> 2]

----------------------------------------------------------------------------
(* Properties of the AuthManager, checked under SpecAuth *)

\* C19 as stated: a token is accepted at every clock reading below its expiry
\* and rejected at every reading from its expiry on, the expiry included
C19_RejectedFromExpiry ==
    (reply.op = "validate_token" /\ reply.expiry # NoVersion)
    => (/\ reply.at < reply.expiry => reply.success
        /\ reply.at >= reply.expiry => reply.error = "Token expired")

----------------------------------------------------------------------------
(* Properties of the store under concurrent threads (SpecThreads) *)

\* the threads inside a method body
Inside == { t \in Threads : threads[t].pc # "idle" }

\* C15: with put, get, delete, get_version and get_all called by concurrent
\* threads on one store, at most one thread is inside a method body and it
\* holds the lock; every finished call returned, and left behind, what the
\* same call made alone returns on the store it found when it took the lock
\* (get_all: the mapping of that instant); every entry of the store was put
\* by some call; no two entries carry the same version.
C15_CallsAtomic ==
    /\ Cardinality(Inside) <= 1
    /\ \A t \in Inside : lock = t
    /\ \A t \in Threads : threads[t].serial
    /\ \A n \in Nodes :
          /\ \A k \in DOMAIN store[n] : <<k, store[n][k].data>> \in put_log
          /\ \A j, k \in DOMAIN store[n] :
                store[n][j].version = store[n][k].version => j = k

\* get_all returned {key1: a} to one thread and the other thread has deleted
\* key1 since: the mapping returned is a copy
C15_Witness ==
    /\ threads["t1"].pc = "idle" /\ threads["t1"].op = "get_all"
    /\ threads["t1"].ret = <<[k \in {"key1"} |-> "a"]>>
    /\ threads["t2"].pc = "idle" /\ threads["t2"].op = "delete"
    /\ threads["t2"].ret = <<TRUE>>
    /\ \A n \in Nodes : DOMAIN store[n] = {}

----------------------------------------------------------------------------
(* Properties of the hash rings (SpecRing) *)

\* C20: after add_node(n) the ring holds exactly virtual-nodes-many entries
\* that map to n, and after remove_node(n) none, on a HashRing and on a
\* ConsistentHashing ring, whatever add_node and remove_node calls came
\* before and whatever positions the virtual nodes hash to.
C20_EntriesPerNode ==
    /\ reply.op = "HashRing.add_node"
         => Cardinality(EntriesOf(ring, reply.node)) = replicas
    /\ reply.op = "HashRing.remove_node"
         => EntriesOf(ring, reply.node) = {}
    /\ reply.op = "ConsistentHashing.add_node"
         => Cardinality(EntriesOf(ch_ring, reply.node)) = num_virtual_nodes
    /\ reply.op = "ConsistentHashing.remove_node"
         => EntriesOf(ch_ring, reply.node) = {}

\* the node a lookup of position h lands on: the one at the least position
\* at or after h, else the one at the least position of all
LeastAtOrAfter(r, h) ==
    IF \E p \in DOMAIN r : p >= h THEN Least({ p \in DOMAIN r : p >= h })
    ELSE Least(DOMAIN r)

\* C21: on a non-empty ring get_node(key) returns the node at the least
\* position >= hash(key), a key hashing onto a position included, and wraps
\* to the node at the smallest position when there is none; for HashRing and
\* for ConsistentHashing (which answers with the address of that node).
C21_LookupAtOrAfter ==
    /\ (reply.op = "HashRing.get_node" /\ DOMAIN ring # {})
         => (/\ reply.error = ""
             /\ reply.hint = NodeId(ring[LeastAtOrAfter(ring, reply.position)]))
    /\ (reply.op = "ConsistentHashing.get_node" /\ DOMAIN ch_ring # {})
         => reply.hint = ch_nodes[ch_ring[LeastAtOrAfter(ch_ring, reply.position)]]

\* C22: add_node(n) of a node that is not on the ring, followed at once by
\* remove_node(n), leaves the ring as it was before the two calls: the
\* position -> node map and the sorted position list of a HashRing, the
\* nodes and the position -> node map of a ConsistentHashing.
C22_AddThenRemoveRestores ==
    [][/\ (reply.op = "HashRing.add_node" /\ ~ reply.found
             /\ reply'.op = "HashRing.remove_node" /\ reply'.node = reply.node)
          => (/\ reply'.error = ""
              /\ <<ring', sorted_keys'>> = reply.snapshot)
       /\ (reply.op = "ConsistentHashing.add_node" /\ ~ reply.found
             /\ reply'.op = "ConsistentHashing.remove_node"
             /\ reply'.node = reply.node)
          => <<ch_nodes', ch_ring'>> = reply.snapshot]_vars

\* a set of positions in ascending order
RECURSIVE Ascending(_)
Ascending(S) ==
    IF S = {} THEN <<>> ELSE <<Least(S)>> \o Ascending(S \ {Least(S)})

\* a list without the repetitions of its elements
RECURSIVE Distinct(_)
Distinct(l) ==
    IF l = <<>> THEN <<>>
    ELSE LET front == Distinct(SubSeq(l, 1, Len(l) - 1))
         IN  IF l[Len(l)] \in SeqToSet(front) THEN front
             ELSE Append(front, l[Len(l)])

\* the nodes of a ring met when walking clockwise from the positions in
\* first and then through the positions in rest
NodesClockwise(r, first, rest) ==
    LET walk == Ascending(first) \o Ascending(rest)
    IN  Distinct([i \in 1..Len(walk) |-> r[walk[i]]])

\* the distinct nodes on a ring
NodesOn(r) == { r[p] : p \in DOMAIN r }

\* C23: HashRing.get_nodes(key, count) returns count pairwise distinct nodes
\* in clockwise order from the key's position (the walk may start at or just
\* after that position) when at least count distinct nodes are on the ring,
\* and fails with the not-enough-nodes error exactly when fewer are.
C23_GetNodes ==
    reply.op = "HashRing.get_nodes"
    => IF Cardinality(NodesOn(ring)) >= reply.version
       THEN /\ reply.error = ""
            /\ Len(reply.snapshot) = reply.version
            /\ \/ reply.snapshot =
                    SubSeq(NodesClockwise(ring,
                               { p \in DOMAIN ring : p >= reply.position },
                               { p \in DOMAIN ring : p < reply.position }),
                           1, reply.version)
               \/ reply.snapshot =
                    SubSeq(NodesClockwise(ring,
                               { p \in DOMAIN ring : p > reply.position },
                               { p \in DOMAIN ring : p <= reply.position }),
                           1, reply.version)
       ELSE reply.error = "ValueError"

\* the ring that holds the nodes of S, added one after the other in the
\* order of their ids to an empty ring: <<ring, sorted_keys>> of a HashRing,
\* <<nodes, ring>> of a ConsistentHashing
RECURSIVE hr_fresh(_)
hr_fresh(S) ==
    IF S = {} THEN <<<<>>, <<>>>>
    ELSE LET n == CHOOSE m \in S : \A k \in S : k <= m
             before == hr_fresh(S \ {n})
             added == hr_add_from(before[1], before[2], n, 0)
         IN  <<added[1], SortedList(added[2])>>

RECURSIVE ch_fresh(_)
ch_fresh(S) ==
    IF S = {} THEN <<<<>>, <<>>>>
    ELSE LET n == CHOOSE m \in S : \A k \in S : k <= m
             before == ch_fresh(S \ {n})
         IN  <<DictSet(before[1], n, Addr(n)),
               [p \in DOMAIN before[2] \cup PositionsOf(n) |->
                   IF p \in PositionsOf(n) THEN n ELSE before[2][p]]>>

\* C24: get_node(k) is the same on every ring that holds the same set of
\* nodes, whatever the order of the add_node calls and whatever nodes were
\* added and removed before: it is what the lookup answers on the ring
\* built by adding just these nodes, in the order of their ids, to an empty
\* ring.
C24_PlacementDeterminism ==
    /\ reply.op = "HashRing.get_node"
         => <<reply.hint, reply.error>> =
              hr_get_node(hr_fresh(NodesOn(ring))[1],
                          hr_fresh(NodesOn(ring))[2], reply.position)
    /\ reply.op = "ConsistentHashing.get_node"
         => reply.hint =
              ch_get_node(ch_fresh(DOMAIN ch_nodes)[1],
                          ch_fresh(DOMAIN ch_nodes)[2], reply.position)

----------------------------------------------------------------------------
(* Properties of the ShardManager (SpecShards, SpecDemo) *)

\* the shards that the allocation of node n gives to the node named owner
AllocatedTo(n, owner) ==
    { s \in DOMAIN shard_allocation[n] : shard_allocation[n][s] = owner }

\* C25: after any sequence of assign_initial_shards, add_shard, remove_shard
\* and rebalance_shards calls a shard is in owned_shards exactly when
\* shard_allocation maps it to this node, and owns_key(k) is true exactly
\* when get_owner(k) is this node.
C25_OwnedIffAllocated ==
    \A n \in SingleNode :
        /\ owned_shards[n] = AllocatedTo(n, NodeId(n))
        /\ \A k \in Keys : owns_key(n, k) <=> get_owner(n, k) = NodeId(n)

\* C26: after assign_initial_shards and any later add_shard, remove_shard
\* and rebalance_shards calls shard_allocation has an owner for every shard
\* of [0, num_shards), so get_owner(k) is never none.
C26_AllocationTotal ==
    \A n \in SingleNode :
        /\ DOMAIN shard_allocation[n] = 0..(num_shards - 1)
        /\ \A k \in Keys : get_owner(n, k) # None

\* C27: the nodes of a cluster, each constructed as
\* KVStoreServicer(node_id, peers), hold the same allocation; every shard is
\* in owned_shards of exactly one node; and the owner that a NotOwner reply
\* names is the id of the node that owns the shard of the key.
C27_OneOwnerPerShard ==
    /\ \A n, m \in Nodes : shard_allocation[n] = shard_allocation[m]
    /\ \A s \in 0..(num_shards - 1) :
          Cardinality({ n \in Nodes : s \in owned_shards[n] }) = 1
    /\ (/\ reply.op \in {"Get", "Put", "Delete"}
        /\ reply.error = "Key belongs to node")
          => \E n \in Nodes : /\ reply.hint = NodeId(n)
                              /\ calculate_shard(reply.key) \in owned_shards[n]

\* C28: rebalance_shards(nodes) returns for every non-empty list and every
\* allocation, and when it has returned every node of the list has
\* floor(num_shards / |nodes|) or ceil(num_shards / |nodes|) shards and
\* every shard has one owner.
C28_RebalanceTerminatesBalanced ==
    reply.op = "rebalance_shards" =>
        LET n == reply.node
            nodes == reply.snapshot
            floor == num_shards \div Len(nodes)
            ceil == IF num_shards % Len(nodes) = 0 THEN floor ELSE floor + 1
        IN  /\ reply.error = ""
            /\ \A i \in 1..Len(nodes) :
                  Cardinality(AllocatedTo(n, nodes[i])) \in {floor, ceil}
            /\ DOMAIN shard_allocation[n] = 0..(num_shards - 1)

----------------------------------------------------------------------------
(* Properties of the NodeManager (SpecHealth) *)

\* the request of caller c gets its response in this step
Answered(c) == calls[c].pc = "sent" /\ calls'[c] # calls[c]

\* each failed request adds one to the failure counter of the peer and one
\* successful request sets it to 0
CountsFailures ==
    \A c \in Callers :
        Answered(c) =>
            LET p == calls[c].node IN
            /\ ~ peer_up[p] => failed_attempts'[p] = failed_attempts[p] + 1
            /\ calls'[c].ret = "json" => failed_attempts'[p] = 0

\* C29: a peer is healthy exactly while its failure counter is below 3, a
\* failed request adds one to the counter, a successful one resets it, and
\* a peer that is unhealthy and from then on answers every request sent to
\* it is eventually healthy again.
C29_FailureDetection ==
    /\ [][CountsFailures]_vars
    /\ \A p \in ManagedNodes :
          []((~ is_healthy(failed_attempts[p]) /\ [] peer_up[p])
                => <> is_healthy(failed_attempts[p]))

----------------------------------------------------------------------------
(* Properties of handle_append_entries (SpecHeartbeat) *)

\* C30: handle_append_entries(term, leader_id) with term >= current_term
\* returns True and leaves the node a FOLLOWER of that term whose leader_id
\* is the sender, also when the node was LEADER in that term; so a node in
\* state LEADER always has its own id as leader_id.
C30_HeartbeatMakesFollower ==
    /\ [][\A n \in Nodes, c \in SenderIds, t \in 0..MaxTerm :
            (AppendEntries(n, t, c) /\ t >= current_term[n])
               => /\ reply'.success
                  /\ state'[n] = FOLLOWER
                  /\ current_term'[n] = t
                  /\ leader_id'[n] = c]_vars
    /\ [](\A n \in Nodes : state[n] = LEADER => leader_id[n] = NodeId(n))

----------------------------------------------------------------------------
(* Properties of the vote and heartbeat handlers on stale terms (Spec) *)

\* what the consensus module of node n holds
ConsensusOf(n) ==
    <<current_term[n], voted_for[n], state[n], leader_id[n], last_heartbeat[n]>>

\* C31: a RequestVote or AppendEntries whose term is lower than the
\* current_term of the receiver is turned down, the reply carries the
\* receiver's current_term, and current_term, voted_for, state, leader_id
\* and the election timer of the receiver stay as they were.
C31_StaleTermRejected ==
    [][\A n \in Nodes :
          LET c == reply'.candidate
              t == reply'.term
          IN  (/\ reply'.node = n
               /\ reply'.op \in {"RequestVote", "AppendEntries"}
               /\ t < current_term[n]
               /\ \/ reply'.op = "RequestVote" /\ RequestVote(n, c, t)
                  \/ reply'.op = "AppendEntries" /\ AppendEntries(n, t, c))
                 => /\ ~ reply'.success
                    /\ reply'.rterm = current_term[n]
                    /\ ConsensusOf(n)' = ConsensusOf(n)]_vars

\* a leader of term 2 has turned down a vote request of term 1
C31_Witness ==
    /\ reply.op = "RequestVote"
    /\ reply.term = 1 /\ reply.rterm = 2
    /\ ~ reply.success
    /\ state[reply.node] = LEADER
    /\ current_term[reply.node] = 2

----------------------------------------------------------------------------
(* Properties of the handlers run by worker threads (SpecStepDown,          *)
(* SpecWorkers)                                                             *)

\* the handler of worker w applies its Put or Delete to the store
Applies(w) == workers[w].pc = "write" /\ workers'[w].pc # "write"

\* a vote request or heartbeat of a greater term is handled by a LEADER
StepsDown(n) ==
    /\ state[n] = LEADER
    /\ reply'.op \in {"RequestVote", "AppendEntries"}
    /\ reply'.node = n
    /\ reply'.term > current_term[n]
    /\ reply' # reply

\* C32: a LEADER that handles a RequestVote or AppendEntries of a greater
\* term is a FOLLOWER of that term when the handler returns, and no Put or
\* Delete handler, one that was already running included, applies a write
\* to the store of a node that is not LEADER.
C32_NoWriteAfterStepDown ==
    [][\A n \in Nodes :
          /\ StepsDown(n)
                => state'[n] = FOLLOWER /\ current_term'[n] = reply'.term
          /\ \A w \in Workers : Applies(w) => state[n] = LEADER]_vars

----------------------------------------------------------------------------
(* Properties of the election timer (Spec) *)

\* a vote request or heartbeat is answered by node n with yes
Accepts(n, op) ==
    /\ reply'.op = op /\ reply'.node = n /\ reply'.success
    /\ \/ op = "RequestVote"
            /\ RequestVote(n, reply'.candidate, reply'.term)
       \/ op = "AppendEntries"
            /\ AppendEntries(n, reply'.term, reply'.candidate)

\* C33: an accepted AppendEntries, a granted vote and the start of an
\* election each reset the election timer (last_heartbeat is the clock
\* reading of that moment), so that no election follows before a full
\* election timeout has passed.
C33_TimerResets ==
    [][\A n \in Nodes :
          /\ Accepts(n, "AppendEntries") => last_heartbeat'[n] = now
          /\ Accepts(n, "RequestVote") => last_heartbeat'[n] = now
          /\ ElectionTimer(n, MaxTerm) => last_heartbeat'[n] = now]_vars

----------------------------------------------------------------------------
(* Properties of validate_token on expired and unknown tokens (SpecAuth) *)

\* validate_token(t) is called on node n in this step
Validates(n, t) ==
    /\ reply'.op = "validate_token" /\ reply'.node = n /\ reply'.token = t
    /\ ValidateToken(n, t)

\* the token table of node n without token t
Without(n, t) == [u \in DOMAIN tokens[n] \ {t} |-> tokens[n][u]]

\* C35: validate_token on a token that is in the table but expired (the
\* clock has reached its expiry) returns (False, "Token expired") and
\* removes it, leaving the other tokens and the api keys as they were, so
\* that a second validation reports "Invalid token"; on a token that is not
\* in the table it returns (False, "Invalid token") and changes nothing.
C35_ExpiredEvicted ==
    [][\A n \in Nodes, t \in TokenIds \cup {EmptyToken} :
          Validates(n, t) =>
             /\ api_keys' = api_keys
             /\ t \notin DOMAIN tokens[n]
                   => /\ ~ reply'.success
                      /\ reply'.error = "Invalid token"
                      /\ tokens' = tokens
             /\ (t \in DOMAIN tokens[n] /\ now >= tokens[n][t][1])
                   => /\ ~ reply'.success
                      /\ reply'.error = "Token expired"
                      /\ tokens'[n] = Without(n, t)
                      /\ validate_token(tokens'[n], t) = "Invalid token"]_vars

----------------------------------------------------------------------------
(* Properties of concurrent handlers on one node (SpecWorkers) *)

\* worker thread w runs a Put that found the stored version of its key
\* equal to the expected version of the request, and has applied its write
PutApplied(w) ==
    /\ workers[w].op = "Put"
    /\ workers[w].pc = "stamp"
    /\ workers[w].version # 0
    /\ workers[w].current_version = workers[w].version

\* C36: of two concurrent Puts for the same key with the same expected
\* version, equal to the stored version, at most one is applied and answered
\* with success; the handlers of both never have their write applied.
C36_OnePutWins ==
    \A w1, w2 \in Workers :
        (/\ w1 # w2
         /\ workers[w1].key = workers[w2].key
         /\ workers[w1].version = workers[w2].version
         /\ PutApplied(w1))
           => ~ PutApplied(w2)

\* C37: the new_version of a successful Put is the version that this Put
\* has stamped on the entry, and the value and the version that a Get
\* returns are those of one stored entry, whatever other handlers do in
\* between.
C37_ResponseOfOneEntry ==
    /\ (reply.op = "Put" /\ reply.success)
          => reply.new_version = reply.sawVersion
    /\ (reply.op = "Get" /\ reply.found)
          => reply.new_version = reply.sawVersion

----------------------------------------------------------------------------
(* Properties of the AuthManager under concurrent calls (SpecTokens) *)

\* C38: when threads validate the same expired token at the same time, or
\* validate while cleanup_expired_tokens runs, every call returns a result
\* and none ends with an exception.
C38_NoUnhandledError ==
    reply.op \in {"validate_token", "cleanup_expired_tokens"}
        => reply.error \notin Raised

----------------------------------------------------------------------------
(* Properties of the HTTP variant (SpecHttp) *)

\* the nodes whose storage holds value under key
Holders(key, value) ==
    { n \in HttpNodes : key \in DOMAIN storage[n] /\ storage[n][key] = value }

\* every node holds every node healthy
AllHealthy ==
    \A n \in HttpNodes, p \in HttpNodes : is_healthy(node_failures[n][p])

\* C39: with replication_factor >= 2 and all nodes healthy, the put_value
\* handler that a replication request starts writes the value to the
\* storage of its own node and forwards nothing to the target node, and
\* when a client's PUT has returned success the value is held by the
\* primary node and by replication_factor - 1 replica nodes.
C39_ReplicaAppliesLocally ==
    /\ \A i \in 1..Len(chain) :
          (AllHealthy /\ chain[i].kind = "replication" /\ chain[i].pc # "route")
             => /\ chain[i].pc = "replicate"
                /\ chain[i].node \in Holders(chain[i].key, chain[i].value)
    /\ (AllHealthy /\ chain = <<>> /\ reply.op = "put_value" /\ reply.success)
          => Cardinality(Holders(reply.key, reply.value)) >= replication_factor

----------------------------------------------------------------------------
(* Properties of the replica set of a key on the HashRing (SpecRing) *)

\* get_nodes(key, count) returns and its first element is what get_node(key)
\* returns, for the key hashed to hash_key
StartsWithPrimary(hash_key, count) ==
    LET primary == hr_get_node(ring, sorted_keys, hash_key)
        nodes == hr_get_nodes(ring, sorted_keys, hash_key, count)
    IN  /\ primary[2] = ""
        /\ nodes[2] = ""
        /\ NodeId(nodes[1][1]) = primary[1]

\* C40: on a HashRing with at least one node, in any state that add_node
\* and remove_node calls lead to, get_nodes(key, count) starts with
\* get_node(key) for every key and every count from 1 to the number of
\* nodes on the ring.
C40_ReplicasStartWithPrimary ==
    \A hash_key \in Positions, count \in Counts :
        (NodesOn(ring) # {} /\ count <= Cardinality(NodesOn(ring)))
            => StartsWithPrimary(hash_key, count)

====
